---------------------------- MODULE Spec2Model ----------------------------
(***************************************************************************)
(* A model of QuicDispatcher (quiche/quic/core/quic_dispatcher.cc): the    *)
(* session map, the buffered-packet store, the time-wait list, the closed  *)
(* session list and its alarm, and the entry points that change them.      *)
(*                                                                         *)
(* Every entry point runs to completion, so each is one action.  The       *)
(* handlers are written as operators on a record d holding the whole       *)
(* dispatcher state (one field per member), so that a handler calling      *)
(* another (ProcessPacket -> MaybeDispatchPacket -> ProcessHeader ->        *)
(* ProcessChlo -> CreateSessionFromChlo ...) is a composition of           *)
(* operators, and the action commits the final record.                     *)
(***************************************************************************)
EXTENDS Integers, Sequences, FiniteSets, TLC

(***************************************************************************)
(* Bounds of the model.                                                    *)
(***************************************************************************)
\* Sessions the factory creates over a behaviour.
MaxSessions == 2
\* A session may close while it processes its 1st .. MaxCloseAt-th packet.
MaxCloseAt == 2
\* Largest argument given to ProcessBufferedChlos.
MaxConnectionsToCreate == 2
\* QuicBufferedPacketStore: non-CHLO packets kept per connection.
kDefaultMaxUndecryptablePackets == 2
\* QuicBufferedPacketStore: connections kept in the store.
kDefaultMaxConnectionsInStore == 2

(***************************************************************************)
(* Program constants.                                                      *)
(***************************************************************************)
kMinClientInitialPacketLength == 1200
kQuicMinimumInitialConnectionIdLength == 8
kQuicDefaultConnectionIdLength == 8
kQuicMaxConnectionIdWithLengthPrefixLength == 20
kMinPacketSizeForVersionNegotiation == 1200
GetMinStatelessResetPacketLength == 21
\* FLAGS_quic_max_recent_stateless_reset_addresses, scaled down.
FLAGS_quic_max_recent_stateless_reset_addresses == 2
\* The lifetime of the recent-reset addresses, in clock ticks.
FLAGS_quic_recent_stateless_reset_addresses_lifetime_ms == 2

(***************************************************************************)
(* Flags.  The restart flags are fixed the way the specification fixes     *)
(* them; the branches they guard are kept in the handlers.                 *)
(***************************************************************************)
\* The flag off: the session map holds replacement connection IDs only.
quic_map_original_connection_ids2_off == FALSE

quic_map_original_connection_ids2 == TRUE
quic_abstract_connection_id_generator == FALSE
quic_disable_legacy_version_encapsulation == TRUE
send_connection_close_for_tls_alerts_ == TRUE
\* The flag off: ProcessChlo creates the session whatever the quota.
FLAGS_quic_allow_chlo_buffering_off == FALSE

FLAGS_quic_allow_chlo_buffering == TRUE
validate_chlo_size == TRUE
allow_short_initial_server_connection_ids_ == FALSE
should_update_expected_server_connection_id_length_ == FALSE

(***************************************************************************)
(* Connection IDs: opaque byte strings, here named by a letter and their   *)
(* length.  "a9" is one octet longer than the expected length, so the      *)
(* dispatcher replaces it; its replacement is "r8", an ID a client can     *)
(* also send by itself.  "s7" is one octet shorter than the shortest ID a  *)
(* client may choose for its first packet.                                 *)
(***************************************************************************)
CIDs == {"a9", "r8", "b8"}

\* Every connection ID the dispatcher's maps can hold.
ConnectionIds == CIDs \cup {"s7"}

ConnectionIdLength(c) ==
  CASE c = "a9" -> 9
    [] c = "r8" -> 8
    [] c = "b8" -> 8
    [] c = "s7" -> 7
    [] OTHER -> 8

\* The lengths a dispatcher is constructed to expect, of those that the
\* named IDs have.
ExpectedLengths == {8, 9}

\* QuicUtils::CreateReplacementConnectionId: a deterministic hash of the ID,
\* of the expected length.  Of the named IDs, "r8" is the hash of 8 octets
\* "a9" the hash of 9 octets and "s7" the hash of 7 octets.
CreateReplacementConnectionId(c, expected_length) ==
  IF expected_length = 9 THEN "a9"
  ELSE IF expected_length = 7 THEN "s7" ELSE "r8"

ReplaceShortServerConnectionId(version, c, expected_length) ==
  CreateReplacementConnectionId(c, expected_length)

ReplaceLongServerConnectionId(version, c, expected_length) ==
  CreateReplacementConnectionId(c, expected_length)

(***************************************************************************)
(* Versions.                                                               *)
(***************************************************************************)
Versions == {"TLS", "Q043", "UNSUPPORTED"}
IsKnown(v) == v # "UNSUPPORTED"
UsesTls(v) == v = "TLS"
AllowsVariableLengthConnectionIds(v) == v = "TLS"
HasIetfInvariantHeader(v) == v = "TLS"
GetSupportedVersions == {"TLS", "Q043"}

IsSupportedVersion(version) == version \in GetSupportedVersions

IsConnectionIdLengthValidForVersion(len, v) ==
  IF ~IsKnown(v) THEN len <= 255
  ELSE IF ~AllowsVariableLengthConnectionIds(v)
       THEN len = kQuicDefaultConnectionIdLength
       ELSE len <= kQuicMaxConnectionIdWithLengthPrefixLength

IsConnectionIdValidForVersion(c, v) ==
  IsConnectionIdLengthValidForVersion(ConnectionIdLength(c), v)

(***************************************************************************)
(* Peer addresses and the blocked source ports.                            *)
(***************************************************************************)
blocked_ports ==
  <<0, 17, 19, 53, 111, 123, 137, 138, 161, 389, 500, 1900, 3702, 5353,
    5355, 11211>>

\* IsSourceUdpPortBlocked that blocks no port.
NoSourceUdpPortBlocked(port) == FALSE

\* IsSourceUdpPortBlocked whose early return takes the highest blocked port
\* too.
IsSourceUdpPortBlockedBelowHighest(port) ==
  LET num_blocked_ports == Len(blocked_ports)
      highest_blocked_port == blocked_ports[num_blocked_ports]
  IN  IF port >= highest_blocked_port THEN FALSE
      ELSE \E i \in 1..num_blocked_ports : port = blocked_ports[i]

IsSourceUdpPortBlocked(port) ==
  LET num_blocked_ports == Len(blocked_ports)
      highest_blocked_port == blocked_ports[num_blocked_ports]
  IN  IF port > highest_blocked_port THEN FALSE
      ELSE \E i \in 1..num_blocked_ports : port = blocked_ports[i]


(***************************************************************************)
(* State.                                                                  *)
(***************************************************************************)
VARIABLES
  reference_counted_session_map_,  \* connection ID -> session handle
  num_sessions_in_session_map_,
  closed_session_list_,            \* sessions waiting for DeleteSessions
  delete_sessions_alarm_,          \* TRUE while the alarm is set
  buffered_packets_,               \* the buffered-packet store
  time_wait_list_manager_,         \* connection ID -> time-wait entry
  new_sessions_allowed_per_event_loop_,
  accept_new_connections_,
  last_error_,
  expected_server_connection_id_length_,
  recent_stateless_reset_addresses_,
  clear_stateless_reset_addresses_alarm_,
  clear_stateless_reset_addresses_deadline_,  \* its deadline - now
  write_blocked_list_,
  sessions,                        \* the session objects the factory made
  reset_log,                       \* peer address, age of the last reset
  out                              \* what the last entry point did

vars ==
  <<reference_counted_session_map_, num_sessions_in_session_map_,
    closed_session_list_, delete_sessions_alarm_, buffered_packets_,
    time_wait_list_manager_, new_sessions_allowed_per_event_loop_,
    accept_new_connections_, last_error_,
    expected_server_connection_id_length_,
    recent_stateless_reset_addresses_,
    clear_stateless_reset_addresses_alarm_,
    clear_stateless_reset_addresses_deadline_, write_blocked_list_, sessions,
    reset_log, out>>

Sessions == 1..MaxSessions
\* Values of a session-map slot besides a session: no entry, and an entry
\* whose shared_ptr was moved from.
NoEntry == 0
NullHandle == -1

(***************************************************************************)
(* Sequence helpers.                                                       *)
(***************************************************************************)
Range(s) == {s[i] : i \in 1..Len(s)}

RECURSIVE Remove(_, _)
Remove(s, x) ==
  IF s = <<>> THEN <<>>
  ELSE IF Head(s) = x THEN Remove(Tail(s), x)
       ELSE <<Head(s)>> \o Remove(Tail(s), x)

RECURSIVE SetToSeq(_)
\* The elements of a finite set of integers in increasing order.
SetToSeq(S) ==
  IF S = {} THEN <<>>
  ELSE LET m == CHOOSE x \in S : \A y \in S : x <= y
       IN  <<m>> \o SetToSeq(S \ {m})

(***************************************************************************)
(* TlsChloExtractor: the CHLO of a connection is carried by one datagram   *)
(* ("chlo") or split over two ("frag1", "frag2"); "alert" is a datagram    *)
(* that makes the TLS stack raise a fatal alert; "data" carries no         *)
(* handshake bytes the extractor can read (0-RTT, reordered packets).      *)
(***************************************************************************)
Payloads == {"chlo", "frag1", "frag2", "alert", "data"}

NewTlsChloExtractor == [state |-> "kInitial", frags |-> {}]

Terminal(x) == x.state \in {"kParsedFullChlo", "kAlert"}

IngestPacket(x, payload) ==
  IF Terminal(x) THEN x
  ELSE CASE payload = "chlo" -> [x EXCEPT !.state = "kParsedFullChlo"]
         [] payload = "alert" -> [x EXCEPT !.state = "kAlert"]
         [] payload \in {"frag1", "frag2"} ->
              LET f == x.frags \cup {payload}
              IN  [state |-> IF f = {"frag1", "frag2"}
                             THEN "kParsedFullChlo"
                             ELSE "kParsedPartialChlo",
                   frags |-> f]
         [] OTHER -> x

HasParsedFullChlo(x) == x.state = "kParsedFullChlo"
\* What the extractor read in the CHLO it put together: the single-packet
\* CHLO and the CHLO in two fragments are two different CHLOs.
server_name(x) == IF x.frags = {} THEN "single.example" ELSE "multi.example"
alpns(x) == IF x.frags = {} THEN <<"h3">> ELSE <<"h3", "h3-29">>
resumption_attempted(x) == x.frags # {}
early_data_attempted(x) == FALSE
tls_alert(x) == x.state = "kAlert"

\* ChloExtractor::Extract (legacy crypto): one datagram carries the CHLO.
ChloExtractor_Extract(payload) == payload = "chlo"

(***************************************************************************)
(* QuicBufferedPacketStore.  lists[c] is the BufferedPacketList of c       *)
(* (present iff c is in order), order is the order the lists were created  *)
(* in (the expiry order), connections_with_chlo_ the lists that have a     *)
(* CHLO, oldest CHLO first.  A buffered packet is its arrival number, and   *)
(* parsed_chlo is the arrival number of the datagram the ParsedClientHello *)
(* was parsed from (0: no ParsedClientHello).                              *)
(***************************************************************************)
EmptyList ==
  [buffered_packets |-> <<>>, parsed_chlo |-> 0, version |-> "TLS",
   ietf_quic |-> TRUE, tls_chlo_extractor |-> NewTlsChloExtractor]

EmptyStore ==
  [lists |-> [c \in ConnectionIds |-> EmptyList], order |-> <<>>,
   connections_with_chlo_ |-> <<>>]

HasBufferedPackets(store, c) == c \in Range(store.order)
HasChloForConnection(store, c) == c \in Range(store.connections_with_chlo_)
HasChlosBuffered(store) == store.connections_with_chlo_ # <<>>

ShouldNotBufferPacket(store, is_chlo) ==
  Len(store.order) >= kDefaultMaxConnectionsInStore

\* EnqueuePacket: [store, result].
EnqueuePacket(store, c, ietf_quic, packet, payload, version, is_chlo) ==
  LET is_first_packet == ~HasBufferedPackets(store, c)
      queue == IF is_first_packet
               THEN [EmptyList EXCEPT !.ietf_quic = ietf_quic,
                                      !.version = version]
               ELSE store.lists[c]
      num_non_chlo_packets ==
        IF HasChloForConnection(store, c)
        THEN Len(queue.buffered_packets) - 1
        ELSE Len(queue.buffered_packets)
  IN  IF is_first_packet /\ ShouldNotBufferPacket(store, is_chlo)
      THEN [store |-> store, result |-> "CONNECTION_POOL_FULL"]
      ELSE IF ~is_chlo /\ num_non_chlo_packets >= kDefaultMaxUndecryptablePackets
      THEN [store |-> store, result |-> "TOO_MANY_PACKETS"]
      ELSE
        LET q2 ==
              IF is_chlo
              THEN [queue EXCEPT
                      !.buffered_packets = <<packet>> \o @,
                      !.parsed_chlo = packet,
                      !.version = version]
              ELSE [queue EXCEPT
                      !.buffered_packets = Append(@, packet),
                      !.tls_chlo_extractor =
                        IF is_first_packet /\ UsesTls(version)
                        THEN IngestPacket(@, payload) ELSE @]
        IN  [store |->
               [lists |-> [store.lists EXCEPT ![c] = q2],
                order |-> IF is_first_packet THEN Append(store.order, c)
                          ELSE store.order,
                connections_with_chlo_ |->
                  IF is_chlo /\ ~HasChloForConnection(store, c)
                  THEN Append(store.connections_with_chlo_, c)
                  ELSE store.connections_with_chlo_],
             result |-> "SUCCESS"]

\* IngestPacketForTlsChloExtraction: [store, full, alert].
IngestPacketForTlsChloExtraction(store, c, payload) ==
  LET x == IngestPacket(store.lists[c].tls_chlo_extractor, payload)
  IN  [store |-> [store EXCEPT !.lists[c].tls_chlo_extractor = x],
       full |-> HasParsedFullChlo(x),
       alert |-> ~HasParsedFullChlo(x) /\ tls_alert(x)]

DiscardPackets(store, c) ==
  [lists |-> [store.lists EXCEPT ![c] = EmptyList],
   order |-> Remove(store.order, c),
   connections_with_chlo_ |-> Remove(store.connections_with_chlo_, c)]

DiscardAllPackets(store) == EmptyStore

\* DeliverPackets: [store, list]; the list is empty when c has none.
DeliverPackets(store, c) ==
  [store |-> DiscardPackets(store, c), list |-> store.lists[c]]

\* DeliverPacketsForNextConnection: [store, cid, list].
DeliverPacketsForNextConnection(store) ==
  IF store.connections_with_chlo_ = <<>>
  THEN [store |-> store, cid |-> "b8", list |-> EmptyList]
  ELSE LET c == Head(store.connections_with_chlo_)
       IN  [store |-> DiscardPackets(store, c), cid |-> c,
            list |-> store.lists[c]]

(***************************************************************************)
(* QuicTimeWaitListManager: each connection ID has at most one entry, with *)
(* the action to take and the kind of packets saved for it.                *)
(***************************************************************************)
NotInTimeWait == [action |-> "NONE", packets |-> "none"]

IsConnectionIdInTimeWait(tw, c) == tw[c].action # "NONE"

AddConnectionIdToTimeWait(tw, action, packets, active_connection_ids) ==
  [c \in ConnectionIds |->
     IF c \in active_connection_ids
     THEN [action |-> action, packets |-> packets]
     ELSE tw[c]]


(***************************************************************************)
(* The dispatcher as a record, and what an entry point reports in out.     *)
(***************************************************************************)
NoSession ==
  [state |-> "none", connection_id |-> "b8", original |-> "none",
   active |-> {}]

NoPacket ==
  [id |-> 0, peer |-> [host |-> "none", port |-> 0], parse_error |-> FALSE,
   form |-> "none", long_packet_type |-> "none", version_flag |-> FALSE,
   version |-> "UNSUPPORTED", destination_connection_id |-> "b8",
   length |-> 0, payload |-> "data", retry_token |-> "none"]

NoOut ==
  [op |-> "Init", packet |-> NoPacket, deliveries |-> <<>>, created |-> <<>>, sent |-> <<>>,
   closes |-> <<>>, closed |-> <<>>,
   attempts |-> <<>>, collisions |-> <<>>, arg |-> 0, process_chlo |-> FALSE,
   loop |-> [max_connections_to_create |-> 0, created |-> 0], factory_calls |-> 0, rejected |-> 0, failures |-> <<>>,
   shutdown |-> [live |-> {}, closes |-> <<>>, hung |-> FALSE],
   parsed |-> <<>>,
   can_write |-> [before |-> {}, again |-> {}, calls |-> <<>>],
   enqueues |-> <<>>,
   reached |-> {}, discarded |-> 0, terminations |-> <<>>,
   id_calls |-> <<>>,
   bugs |-> {}, overflow |-> FALSE]

Dispatcher ==
  [reference_counted_session_map_ |-> reference_counted_session_map_,
   num_sessions_in_session_map_ |-> num_sessions_in_session_map_,
   closed_session_list_ |-> closed_session_list_,
   delete_sessions_alarm_ |-> delete_sessions_alarm_,
   buffered_packets_ |-> buffered_packets_,
   time_wait_list_manager_ |-> time_wait_list_manager_,
   new_sessions_allowed_per_event_loop_ |->
     new_sessions_allowed_per_event_loop_,
   accept_new_connections_ |-> accept_new_connections_,
   last_error_ |-> last_error_,
   expected_server_connection_id_length_ |->
     expected_server_connection_id_length_,
   recent_stateless_reset_addresses_ |-> recent_stateless_reset_addresses_,
   clear_stateless_reset_addresses_alarm_ |->
     clear_stateless_reset_addresses_alarm_,
   clear_stateless_reset_addresses_deadline_ |->
     clear_stateless_reset_addresses_deadline_,
   write_blocked_list_ |-> write_blocked_list_,
   sessions |-> sessions,
   reset_log |-> reset_log,
   out |-> out]

\* The state an entry point starts from: the dispatcher, nothing reported.
\* out.loop goes on: the argument of the last ProcessBufferedChlos and the
\* sessions created since it started.
Enter(op) ==
  [Dispatcher EXCEPT !.out = [NoOut EXCEPT !.op = op, !.loop = out.loop]]

Commit(d) ==
  /\ reference_counted_session_map_' = d.reference_counted_session_map_
  /\ num_sessions_in_session_map_' = d.num_sessions_in_session_map_
  /\ closed_session_list_' = d.closed_session_list_
  /\ delete_sessions_alarm_' = d.delete_sessions_alarm_
  /\ buffered_packets_' = d.buffered_packets_
  /\ time_wait_list_manager_' = d.time_wait_list_manager_
  /\ new_sessions_allowed_per_event_loop_' =
       d.new_sessions_allowed_per_event_loop_
  /\ accept_new_connections_' = d.accept_new_connections_
  /\ last_error_' = d.last_error_
  /\ expected_server_connection_id_length_' =
       d.expected_server_connection_id_length_
  /\ recent_stateless_reset_addresses_' = d.recent_stateless_reset_addresses_
  /\ clear_stateless_reset_addresses_alarm_' =
       d.clear_stateless_reset_addresses_alarm_
  /\ clear_stateless_reset_addresses_deadline_' =
       d.clear_stateless_reset_addresses_deadline_
  /\ reset_log' = d.reset_log
  /\ write_blocked_list_' = d.write_blocked_list_
  /\ sessions' = d.sessions
  /\ out' = d.out

Bug(d, name) == [d EXCEPT !.out.bugs = @ \cup {name}]

Send(d, kind, peer, c) ==
  [d EXCEPT !.out.sent = Append(@, [kind |-> kind, peer |-> peer, cid |-> c])]

SetLastError(d, error) == [d EXCEPT !.last_error_ = error]

(***************************************************************************)
(* Closing a session.                                                      *)
(***************************************************************************)
\* The constructor of StatelessConnectionTerminator: the packet creator
\* writes server_connection_id, the framer's initial obfuscators are those
\* of original_server_connection_id.
StatelessConnectionTerminator(server_connection_id, original_server_connection_id) ==
  [server_connection_id_ |-> server_connection_id,
   initial_obfuscators |-> original_server_connection_id]

\* StatelessConnectionTerminator::CloseConnection: one CONNECTION_CLOSE
\* packet, handed to the time-wait list with the active connection IDs.
CloseConnection(d, terminator, error_code, error_details, active_connection_ids) ==
  [d EXCEPT
     !.time_wait_list_manager_ =
        AddConnectionIdToTimeWait(@, "SEND_TERMINATION_PACKETS",
                                  "connection_close", active_connection_ids),
     !.out.closes =
        Append(@, [ids |-> active_connection_ids, error_code |-> error_code,
                   error_details |-> error_details,
                   server_connection_id |-> terminator.server_connection_id_,
                   initial_obfuscators |-> terminator.initial_obfuscators])]

\* CleanUpSession that puts only the connection ID the session named in
\* the time-wait list.
CleanUpSessionNamedIdOnly(d, server_connection_id, s, conn) ==
  [d EXCEPT !.write_blocked_list_ = @ \ {s},
            !.time_wait_list_manager_ =
               AddConnectionIdToTimeWait(@, "SEND_STATELESS_RESET", "none",
                                         {server_connection_id})]

\* CleanUpSession whose terminator takes its initial keys from the
\* connection ID the session named.
CleanUpSessionKeyedByNamedId(d, server_connection_id, s, conn) ==
  LET d1 == [d EXCEPT !.write_blocked_list_ = @ \ {s}]
  IN  IF conn.termination_packets
      THEN [d1 EXCEPT !.time_wait_list_manager_ =
              AddConnectionIdToTimeWait(@, "SEND_CONNECTION_CLOSE_PACKETS",
                                        "termination_packets", conn.active)]
      ELSE IF ~conn.handshake_complete
      THEN CloseConnection(
             d1, StatelessConnectionTerminator(server_connection_id,
                                               server_connection_id),
             "QUIC_HANDSHAKE_FAILED",
             "Connection is closed by server before handshake confirmed",
             conn.active)
      ELSE [d1 EXCEPT !.time_wait_list_manager_ =
              AddConnectionIdToTimeWait(@, "SEND_STATELESS_RESET", "none",
                                        conn.active)]

\* conn: what the connection reports when it closes: its active connection
\* IDs, its original destination connection ID, whether it has termination
\* packets, whether its handshake is done.
CleanUpSession(d, server_connection_id, s, conn) ==
  LET d1 == [d EXCEPT !.write_blocked_list_ = @ \ {s}]
  IN  IF conn.termination_packets
      THEN [d1 EXCEPT !.time_wait_list_manager_ =
              AddConnectionIdToTimeWait(@, "SEND_CONNECTION_CLOSE_PACKETS",
                                        "termination_packets", conn.active)]
      ELSE IF ~conn.handshake_complete
      THEN CloseConnection(
             d1, StatelessConnectionTerminator(server_connection_id,
                                               conn.original),
             "QUIC_HANDSHAKE_FAILED",
             "Connection is closed by server before handshake confirmed",
             conn.active)
      ELSE [d1 EXCEPT !.time_wait_list_manager_ =
              AddConnectionIdToTimeWait(@, "SEND_STATELESS_RESET", "none",
                                        conn.active)]

\* The sessions a shared_ptr of the dispatcher refers to: the handles of
\* the session map and of closed_session_list_.
Handles(d) ==
  ({d.reference_counted_session_map_[c] : c \in ConnectionIds}
     \cup Range(d.closed_session_list_)) \cap Sessions

\* A session whose last handle went between d0 and d is destroyed.
Release(d0, d) ==
  [d EXCEPT !.sessions =
     [s \in Sessions |->
        IF s \in Handles(d0) /\ s \notin Handles(d)
        THEN [@[s] EXCEPT !.state = "destroyed"]
        ELSE @[s]]]

\* OnConnectionClosed without the closed-session list: erasing the map
\* entries drops the last reference and destroys the session at once.
OnConnectionClosedDestroysSession(d, server_connection_id, conn) ==
  LET s == d.reference_counted_session_map_[server_connection_id]
  IN  IF s \notin Sessions THEN Bug(d, "quic_bug_10287_3")
      ELSE
        LET d2 == CleanUpSession(d, server_connection_id, s, conn)
        IN  [d2 EXCEPT
               !.reference_counted_session_map_ =
                  [c \in ConnectionIds |-> IF c \in conn.active THEN NoEntry ELSE @[c]],
               !.num_sessions_in_session_map_ = @ - 1,
               !.sessions[s] = NoSession]

\* OnConnectionClosed that queues the session and leaves the alarm alone.
OnConnectionClosedLeavesAlarm(d, server_connection_id, conn) ==
  LET s == d.reference_counted_session_map_[server_connection_id]
  IN  IF s \notin Sessions THEN Bug(d, "quic_bug_10287_3")
      ELSE
        LET d1 == [d EXCEPT
                     !.closed_session_list_ = Append(@, s),
                     !.out.closed =
                        Append(@, [session |-> s,
                                   server_connection_id |->
                                     server_connection_id,
                                   ids |-> conn.active,
                                   connection |-> conn])]
            d2 == CleanUpSession(d1, server_connection_id, s, conn)
        IN  [d2 EXCEPT
               !.reference_counted_session_map_ =
                  [c \in ConnectionIds |-> IF c \in conn.active THEN NoEntry ELSE @[c]],
               !.num_sessions_in_session_map_ = @ - 1]

OnConnectionClosed(d, server_connection_id, conn) ==
  LET s == d.reference_counted_session_map_[server_connection_id]
  IN  IF s = NoEntry THEN Bug(d, "quic_bug_10287_3")
      ELSE IF s = NullHandle THEN Bug(d, "null_dereference")
      ELSE
        LET d1 == [d EXCEPT
                     !.delete_sessions_alarm_ =
                        IF d.closed_session_list_ = <<>> THEN TRUE ELSE @,
                     !.closed_session_list_ = Append(@, s),
                     \* std::move(it->second) leaves an empty handle.
                     !.reference_counted_session_map_[server_connection_id] =
                        NullHandle,
                     !.out.closed =
                        Append(@, [session |-> s,
                                   server_connection_id |->
                                     server_connection_id,
                                   ids |-> conn.active,
                                   connection |-> conn])]
            d2 == CleanUpSession(d1, server_connection_id, s, conn)
        IN  Release(d2,
              [d2 EXCEPT
                 !.reference_counted_session_map_ =
                    [c \in ConnectionIds |->
                       IF c \in conn.active THEN NoEntry ELSE @[c]],
                 !.num_sessions_in_session_map_ = @ - 1])

(***************************************************************************)
(* The session side.  env says what the sessions touched by this entry     *)
(* point do: close_at = k makes a session close its connection while it    *)
(* processes the k-th packet handed to it in this entry point (0: never),  *)
(* and then report termination_packets and handshake_complete.             *)
(***************************************************************************)
ConnectionOf(d, s, env) ==
  [active |-> d.sessions[s].active,
   \* GetOriginalDestinationConnectionId: the ID the client chose.
   original |-> IF d.sessions[s].original # "none"
                THEN d.sessions[s].original
                ELSE d.sessions[s].connection_id,
   termination_packets |-> env.termination_packets,
   handshake_complete |-> env.handshake_complete]

\* The connection of session s closes: it is no longer connected (nothing
\* reads the connection IDs of a closed session again), and the session
\* tells its visitor, naming connection ID c.
SessionCloses(d, s, c, env) ==
  LET conn == IF d.reference_counted_session_map_[c] \in Sessions
              THEN ConnectionOf(d, d.reference_counted_session_map_[c], env)
              ELSE ConnectionOf(d, s, env)
  IN  OnConnectionClosed(
        [d EXCEPT !.sessions[s] = [NoSession EXCEPT !.state = "closed"]],
        c, conn)

\* connection->GetOneActiveServerConnectionId(): the ID a closing session
\* names.
OneActiveServerConnectionId(d, s) ==
  IF d.sessions[s].connection_id \in d.sessions[s].active
       \/ d.sessions[s].active = {}
  THEN d.sessions[s].connection_id
  ELSE CHOOSE c \in d.sessions[s].active : TRUE

NumDelivered(d, s) ==
  Cardinality({i \in 1..Len(d.out.deliveries) :
                 d.out.deliveries[i].session = s})

\* session->ProcessUdpPacket(packet), as the dispatcher calls it.
ProcessUdpPacket(d, s, packet, env) ==
  LET d1 == [d EXCEPT !.out.deliveries =
               Append(@, [session |-> s, packet |-> packet,
                          state |-> d.sessions[s].state])]
  IN  IF d.sessions[s].state = "live" /\ env.close_at = NumDelivered(d, s) + 1
      THEN SessionCloses(d1, s, OneActiveServerConnectionId(d, s), env)
      ELSE d1

RECURSIVE DeliverPacketsToSession(_, _, _, _)
DeliverPacketsToSession(d, packets, s, env) ==
  IF packets = <<>> THEN d
  ELSE DeliverPacketsToSession(ProcessUdpPacket(d, s, Head(packets), env),
                               Tail(packets), s, env)


(***************************************************************************)
(* Stateless termination and session creation.                             *)
(***************************************************************************)
\* [has_value, value]
\* A replacement drawn anew for each connection instead of derived from the
\* incoming ID alone.
MaybeReplaceServerConnectionIdPerConnection(d, server_connection_id, version) ==
  LET expected == d.expected_server_connection_id_length_
  IN  IF ConnectionIdLength(server_connection_id) = expected
      THEN [has_value |-> FALSE, value |-> server_connection_id]
      ELSE [has_value |-> TRUE,
            value |-> IF expected = 9 THEN "a9"
                      ELSE IF d.num_sessions_in_session_map_ % 2 = 0
                      THEN "r8" ELSE "b8"]

MaybeReplaceServerConnectionId(d, server_connection_id, version) ==
  LET server_connection_id_length == ConnectionIdLength(server_connection_id)
      expected == d.expected_server_connection_id_length_
  IN  IF server_connection_id_length = expected
      THEN [has_value |-> FALSE, value |-> server_connection_id]
      ELSE [has_value |-> TRUE,
            value |-> IF server_connection_id_length < expected
                      THEN ReplaceShortServerConnectionId(
                             version, server_connection_id, expected)
                      ELSE ReplaceLongServerConnectionId(
                             version, server_connection_id, expected)]

\* out.terminations: the arguments of each call, in order.
Terminating(d, server_connection_id, format, version_flag, version, error_code, action) ==
  [d EXCEPT !.out.terminations =
     Append(@, [cid |-> server_connection_id, format |-> format,
                version_flag |-> version_flag, version |-> version,
                error_code |-> error_code, action |-> action])]

\* The version-negotiation packet saved under the caller's action instead of
\* SEND_TERMINATION_PACKETS.
StatelesslyTerminateConnectionUnderCallersAction(d0, server_connection_id, format, version_flag, version, error_code, error_details, action) ==
  LET d == Terminating(d0, server_connection_id, format, version_flag,
                       version, error_code, action)
  IN  IF format # "IETF_QUIC_LONG_HEADER_PACKET" /\ ~version_flag
      THEN [d EXCEPT !.time_wait_list_manager_ =
              AddConnectionIdToTimeWait(@, action, "none",
                                        {server_connection_id})]
      ELSE IF IsSupportedVersion(version)
      THEN CloseConnection(
             d, StatelessConnectionTerminator(server_connection_id,
                                              server_connection_id),
             error_code, error_details, {server_connection_id})
      ELSE [d EXCEPT !.time_wait_list_manager_ =
              AddConnectionIdToTimeWait(@, action, "version_negotiation",
                                        {server_connection_id})]

StatelesslyTerminateConnection(d0, server_connection_id, format, version_flag, version, error_code, error_details, action) ==
  LET d == Terminating(d0, server_connection_id, format, version_flag,
                       version, error_code, action)
  IN  IF format # "IETF_QUIC_LONG_HEADER_PACKET" /\ ~version_flag
      THEN [d EXCEPT !.time_wait_list_manager_ =
              AddConnectionIdToTimeWait(@, action, "none",
                                        {server_connection_id})]
      ELSE IF IsSupportedVersion(version)
      THEN CloseConnection(
             d, StatelessConnectionTerminator(server_connection_id,
                                              server_connection_id),
             error_code, error_details, {server_connection_id})
      ELSE [d EXCEPT !.time_wait_list_manager_ =
              AddConnectionIdToTimeWait(@, "SEND_TERMINATION_PACKETS",
                                        "version_negotiation",
                                        {server_connection_id})]

\* The session object the factory returns next (0: the model has no more).
NextSession(d) ==
  IF \E s \in Sessions : d.sessions[s].state = "none"
  THEN CHOOSE s \in Sessions :
         /\ d.sessions[s].state = "none"
         /\ \A t \in Sessions : d.sessions[t].state = "none" => s <= t
  ELSE 0

\* The collision branch that terminates the newcomer whether or not its
\* connection ID was replaced.
ConnectionIdCollisionAlwaysTerminates(d, original_connection_id, replaced_connection_id, version) ==
  StatelesslyTerminateConnection(
    d, original_connection_id, "IETF_QUIC_LONG_HEADER_PACKET", TRUE, version,
    "QUIC_HANDSHAKE_FAILED", "Connection ID collision, please retry",
    "SEND_CONNECTION_CLOSE_PACKETS")

\* CreateSessionFromChlo when the server connection ID is owned by another
\* session.
ConnectionIdCollision(d, original_connection_id, replaced_connection_id, version) ==
  IF replaced_connection_id
  THEN StatelesslyTerminateConnection(
         d, original_connection_id, "IETF_QUIC_LONG_HEADER_PACKET", TRUE,
         version, "QUIC_HANDSHAKE_FAILED",
         "Connection ID collision, please retry",
         "SEND_CONNECTION_CLOSE_PACKETS")
  ELSE d

\* [d, session]; session = 0 stands for nullptr.
CreateSessionFromChlo(d0, original_connection_id, version, env) ==
  LET d == [d0 EXCEPT !.out.attempts = Append(@, original_connection_id)]
      r == MaybeReplaceServerConnectionId(d, original_connection_id, version)
      replaced_connection_id == r.has_value
      server_connection_id == r.value
      map == d.reference_counted_session_map_
      s == NextSession(d)
  IN  IF map[server_connection_id] # NoEntry
         /\ quic_map_original_connection_ids2
      THEN [d |-> ConnectionIdCollision(
                    [d EXCEPT !.out.collisions =
                       Append(@, [original |-> original_connection_id,
                                  server |-> server_connection_id,
                                  replaced |-> replaced_connection_id,
                                  session |-> map[server_connection_id]])],
                    original_connection_id, replaced_connection_id, version),
            session |-> 0]
      ELSE IF s = 0
      THEN [d |-> [d EXCEPT !.out.overflow = TRUE], session |-> 0]
      ELSE IF ~env.factory_ok
      THEN [d |-> Bug([d EXCEPT !.out.factory_calls = @ + 1],
                      "quic_bug_10287_8"),
            session |-> 0]
      ELSE
        LET new == [state |-> "live",
                    connection_id |-> server_connection_id,
                    original |-> IF replaced_connection_id
                                 THEN original_connection_id ELSE "none",
                    active |-> {server_connection_id} \cup
                               (IF replaced_connection_id
                                THEN {original_connection_id} ELSE {})]
            d1 == [d EXCEPT !.out.factory_calls = @ + 1]
        IN  IF map[server_connection_id] # NoEntry
            THEN \* The insertion fails: the new session is released and the
                 \* session already in the map is returned.
                 [d |-> Bug([d1 EXCEPT !.sessions[s] =
                                [new EXCEPT !.state = "destroyed"]],
                            "quic_bug_10287_9"),
                  session |-> map[server_connection_id]]
            ELSE
              LET insert_original ==
                    quic_map_original_connection_ids2 /\ replaced_connection_id
                  d2 == [d1 EXCEPT
                           !.sessions[s] = new,
                           !.reference_counted_session_map_ =
                              [c \in ConnectionIds |->
                                 IF c = server_connection_id THEN s
                                 ELSE IF insert_original
                                         /\ c = original_connection_id
                                         /\ map[c] = NoEntry
                                 THEN s
                                 ELSE map[c]],
                           !.num_sessions_in_session_map_ = @ + 1,
                           !.out.loop.created = @ + 1,
                           !.out.created =
                              Append(@, [session |-> s,
                                         original |-> original_connection_id,
                                         server |-> server_connection_id])]
              IN  [d |-> IF insert_original
                            /\ map[original_connection_id] # NoEntry
                         THEN Bug(d2, "quic_460317833_02") ELSE d2,
                   session |-> s]

(***************************************************************************)
(* Buffering and CHLO processing.  p is the received packet: its arrival   *)
(* number id, the peer address, and what the public-header parser and the  *)
(* CHLO extractors find in it.                                             *)
(***************************************************************************)
OnBufferPacketFailure(d, result, server_connection_id) ==
  [d EXCEPT !.out.failures =
     Append(@, [result |-> result, cid |-> server_connection_id])]

\* EnqueueIn storing the packet whatever EnqueuePacket answers.
EnqueueInWhateverTheResult(d, p, is_chlo) ==
  LET c == p.destination_connection_id
      store == d.buffered_packets_
  IN  [d EXCEPT
         !.out.enqueues = Append(@, [cid |-> c, is_chlo |-> is_chlo,
                                     result |-> "SUCCESS"]),
         !.buffered_packets_.lists[c].buffered_packets = Append(@, p.id),
         !.buffered_packets_.order =
            IF HasBufferedPackets(store, c) THEN @ ELSE Append(@, c),
         !.buffered_packets_.connections_with_chlo_ =
            IF is_chlo /\ ~HasChloForConnection(store, c)
            THEN Append(@, c) ELSE @]

\* buffered_packets_.EnqueuePacket and the check of its result, as
\* BufferEarlyPacket and ProcessChlo have them.
EnqueueIn(d, p, is_chlo) ==
  LET r == EnqueuePacket(d.buffered_packets_, p.destination_connection_id,
                         p.form # "GOOGLE_QUIC_PACKET", p.id, p.payload,
                         p.version, is_chlo)
      d1 == [d EXCEPT !.buffered_packets_ = r.store,
                      !.out.enqueues =
                         Append(@, [cid |-> p.destination_connection_id,
                                    is_chlo |-> is_chlo,
                                    result |-> r.result])]
  IN  IF r.result # "SUCCESS"
      THEN OnBufferPacketFailure(d1, r.result, p.destination_connection_id)
      ELSE d1

\* BufferEarlyPacket handing the store a ParsedClientHello with the packet.
BufferEarlyPacketAsChlo(d, p) == EnqueueIn(d, p, TRUE)

BufferEarlyPacket(d, p) == EnqueueIn(d, p, FALSE)

\* ProcessChlo handing the buffered packets to the new session before the
\* packet that carries the CHLO.
ProcessChloAfterBufferedPackets(d, p, env) ==
  IF FLAGS_quic_allow_chlo_buffering
     /\ d.new_sessions_allowed_per_event_loop_ <= 0
  THEN EnqueueIn(d, p, TRUE)
  ELSE
    LET r == CreateSessionFromChlo(d, p.destination_connection_id, p.version,
                                   env)
    IN  IF r.session = 0 THEN r.d
        ELSE
          LET dl == DeliverPackets(r.d.buffered_packets_,
                                   p.destination_connection_id)
              d1 == [r.d EXCEPT !.buffered_packets_ = dl.store]
              d2 == DeliverPacketsToSession(d1, dl.list.buffered_packets,
                                            r.session, env)
              d3 == ProcessUdpPacket(d2, r.session, p.id, env)
          IN  [d3 EXCEPT !.new_sessions_allowed_per_event_loop_ = @ - 1]

\* ProcessChlo that leaves new_sessions_allowed_per_event_loop_ as it is.
ProcessChloKeepsQuota(d, p, env) ==
  IF FLAGS_quic_allow_chlo_buffering
     /\ d.new_sessions_allowed_per_event_loop_ <= 0
  THEN EnqueueIn([d EXCEPT !.out.process_chlo = TRUE], p, TRUE)
  ELSE
    LET r == CreateSessionFromChlo([d EXCEPT !.out.process_chlo = TRUE],
                                   p.destination_connection_id, p.version,
                                   env)
    IN  IF r.session = 0 THEN r.d
        ELSE
          LET dl == DeliverPackets(r.d.buffered_packets_,
                                   p.destination_connection_id)
              d1 == [r.d EXCEPT !.buffered_packets_ = dl.store]
              d2 == ProcessUdpPacket(d1, r.session, p.id, env)
          IN  DeliverPacketsToSession(d2, dl.list.buffered_packets,
                                      r.session, env)

\* ProcessChlo that buffers only when the quota is below 0.
ProcessChloUnlessQuotaNegative(d0, p, env) ==
  LET d == [d0 EXCEPT !.out.process_chlo = TRUE] IN
  IF FLAGS_quic_allow_chlo_buffering
     /\ d.new_sessions_allowed_per_event_loop_ < 0
  THEN EnqueueIn(d, p, TRUE)
  ELSE
    LET r == CreateSessionFromChlo(d, p.destination_connection_id, p.version,
                                   env)
    IN  IF r.session = 0 THEN r.d
        ELSE
          LET dl == DeliverPackets(r.d.buffered_packets_,
                                   p.destination_connection_id)
              d1 == [r.d EXCEPT !.buffered_packets_ = dl.store]
              d2 == ProcessUdpPacket(d1, r.session, p.id, env)
              d3 == DeliverPacketsToSession(d2, dl.list.buffered_packets,
                                            r.session, env)
          IN  [d3 EXCEPT !.new_sessions_allowed_per_event_loop_ = @ - 1]

ProcessChlo(d0, p, env) ==
  LET d == [d0 EXCEPT !.out.process_chlo = TRUE] IN
  IF FLAGS_quic_allow_chlo_buffering
     /\ d.new_sessions_allowed_per_event_loop_ <= 0
  THEN EnqueueIn(
         IF HasChloForConnection(d.buffered_packets_,
                                 p.destination_connection_id)
         THEN Bug(d, "quic_bug_12724_7") ELSE d,
         p, TRUE)
  ELSE
    LET r == CreateSessionFromChlo(d, p.destination_connection_id, p.version,
                                   env)
    IN  IF r.session = 0 THEN r.d
        ELSE
          LET dl == DeliverPackets(r.d.buffered_packets_,
                                   p.destination_connection_id)
              packets == dl.list.buffered_packets
              d1 == [r.d EXCEPT !.buffered_packets_ = dl.store]
              \* Process CHLO at first.
              d2 == ProcessUdpPacket(d1, r.session, p.id, env)
              d3 == DeliverPacketsToSession(d2, packets, r.session, env)
          IN  [d3 EXCEPT !.new_sessions_allowed_per_event_loop_ = @ - 1]


(***************************************************************************)
(* The receive path.                                                       *)
(***************************************************************************)
\* QuicTimeWaitListManager::ProcessPacket: the recorded action is taken.
TimeWaitProcessPacket(d, p) ==
  LET e == d.time_wait_list_manager_[p.destination_connection_id]
  IN  IF e.action = "DO_NOTHING" THEN d
      ELSE Send(d, e.action, p.peer, p.destination_connection_id)

\* out.reached reports the points of the receive path the packet got to.
Reach(d, point) == [d EXCEPT !.out.reached = @ \cup {point}]

\* MaybeDispatchPacket from the time-wait check on: [handled, d].
\* The dispatcher does not accept new connections and the packet has a
\* version: the callback without the termination.
RejectNewConnectionWithoutTimeWait(d, p) ==
  [d EXCEPT !.out.rejected = @ + 1]

\* The dispatcher does not accept new connections and the packet has a
\* version.
RejectNewConnection(d, p) ==
  LET d1 == StatelesslyTerminateConnection(
              d, p.destination_connection_id, p.form, p.version_flag,
              p.version, "QUIC_HANDSHAKE_FAILED",
              "Stop accepting new connections", "SEND_STATELESS_RESET")
      d2 == TimeWaitProcessPacket(d1, p)
  IN  [d2 EXCEPT !.out.rejected = @ + 1]

\* A version-negotiation packet whatever the length of the packet.
ShouldSendVersionNegotiationAlways(p) == TRUE

\* The packet of an unsupported version is large enough to be answered.
ShouldSendVersionNegotiation(p) ==
  \/ ~validate_chlo_size
  \/ p.length >= kMinPacketSizeForVersionNegotiation

\* An INITIAL packet one octet longer than the smallest allowed counts as
\* too small as well.
IsUndersizedInitialOrSmallest(p) ==
  /\ p.version_flag /\ validate_chlo_size
  /\ p.form = "IETF_QUIC_LONG_HEADER_PACKET"
  /\ p.long_packet_type = "INITIAL"
  /\ p.length <= kMinClientInitialPacketLength

\* An INITIAL packet too small to carry a CHLO.
IsUndersizedInitial(p) ==
  /\ p.version_flag /\ validate_chlo_size
  /\ p.form = "IETF_QUIC_LONG_HEADER_PACKET"
  /\ p.long_packet_type = "INITIAL"
  /\ p.length < kMinClientInitialPacketLength

MaybeDispatchUnbuffered(d0, p) ==
  LET server_connection_id == p.destination_connection_id
      Handled(x) == [handled |-> TRUE, d |-> x]
      d == Reach(d0, "IsConnectionIdInTimeWait")
      dv == Reach(d, "IsSupportedVersion")
  IN  IF IsConnectionIdInTimeWait(d.time_wait_list_manager_,
                                  server_connection_id)
      THEN Handled(TimeWaitProcessPacket(d, p))
      ELSE IF ~d.accept_new_connections_ /\ p.version_flag
      THEN Handled(RejectNewConnection(d, p))
      ELSE IF p.version_flag /\ ~IsSupportedVersion(p.version)
      THEN IF ShouldSendVersionNegotiation(p)
           THEN Handled(Send(dv, "version_negotiation", p.peer,
                             server_connection_id))
           ELSE Handled(dv)
      ELSE IF IsUndersizedInitial(p)
      THEN Handled(dv)
      ELSE [handled |-> FALSE, d |-> IF p.version_flag THEN dv ELSE d]

\* MaybeDispatchUnmapped buffering the packet when the store has any list
\* for its connection ID.
MaybeDispatchUnmappedIfAnyList(d, p) ==
  IF HasBufferedPackets(d.buffered_packets_, p.destination_connection_id)
  THEN [handled |-> TRUE, d |-> BufferEarlyPacket(d, p)]
  ELSE MaybeDispatchUnbuffered(d, p)

\* MaybeDispatchPacket once the connection ID was not found in the session
\* map: [handled, d].
MaybeDispatchUnmapped(d, p) ==
  IF HasChloForConnection(d.buffered_packets_, p.destination_connection_id)
  THEN [handled |-> TRUE, d |-> BufferEarlyPacket(d, p)]
  ELSE MaybeDispatchUnbuffered(d, p)

\* [handled, d]
\* A connection ID shorter than 64 bits counts as too short whatever length
\* the dispatcher expects.
IsShortInitialConnectionIdForAnyExpectedLength(d, p) ==
  /\ p.version_flag /\ IsKnown(p.version)
  /\ ConnectionIdLength(p.destination_connection_id)
       < kQuicMinimumInitialConnectionIdLength
  /\ ~allow_short_initial_server_connection_ids_

\* The connection ID is shorter than 64 bits and shorter than expected.
IsShortInitialConnectionId(d, p) ==
  /\ p.version_flag /\ IsKnown(p.version)
  /\ ConnectionIdLength(p.destination_connection_id)
       < kQuicMinimumInitialConnectionIdLength
  /\ ConnectionIdLength(p.destination_connection_id)
       < d.expected_server_connection_id_length_
  /\ ~allow_short_initial_server_connection_ids_

MaybeDispatchPacket(d, p, env) ==
  LET server_connection_id == p.destination_connection_id
      len == ConnectionIdLength(server_connection_id)
      map == d.reference_counted_session_map_
      Handled(x) == [handled |-> TRUE, d |-> x]
      replaced == MaybeReplaceServerConnectionId(d, server_connection_id,
                                                 p.version)
  IN  IF IsSourceUdpPortBlocked(p.peer.port) THEN Handled(d)
      ELSE IF IsShortInitialConnectionId(d, p)
      THEN Handled(d)
      ELSE IF /\ p.version_flag /\ IsKnown(p.version)
              /\ ~IsConnectionIdLengthValidForVersion(len, p.version)
      THEN Handled(d)
      ELSE IF map[server_connection_id] # NoEntry
      THEN LET d1 == IF HasBufferedPackets(d.buffered_packets_,
                                           server_connection_id)
                     THEN Bug(d, "dcheck_597") ELSE d
           IN  IF map[server_connection_id] = NullHandle
               THEN Handled(Bug(d1, "null_dereference"))
               ELSE Handled(ProcessUdpPacket(d1, map[server_connection_id],
                                             p.id, env))
      ELSE IF /\ IsKnown(p.version) /\ ~quic_map_original_connection_ids2
              /\ replaced.has_value
              /\ map[replaced.value] \in Sessions
      THEN Handled(ProcessUdpPacket(
                     IF HasBufferedPackets(d.buffered_packets_, replaced.value)
                     THEN Bug(d, "dcheck_644") ELSE d,
                     map[replaced.value], p.id, env))
      ELSE MaybeDispatchUnmapped(d, p)

\* result.parsed_chlo.emplace() and the assignments that follow it, for a
\* CHLO read by TLS extractor x; out.parsed reports the ParsedClientHello.
EmplaceParsedChlo(d, p, x) ==
  [d EXCEPT !.out.parsed =
     Append(@, [cid |-> p.destination_connection_id,
                sni |-> server_name(x),
                alpns |-> alpns(x),
                retry_token |-> IF p.retry_token # "none"
                                THEN p.retry_token ELSE "",
                resumption_attempted |-> resumption_attempted(x),
                early_data_attempted |-> early_data_attempted(x)])]

\* [d, parsed_chlo, tls_alert]
TryExtractChloOrBufferEarlyPacket(d, p) ==
  LET c == p.destination_connection_id
      None(x) == [d |-> x, parsed_chlo |-> FALSE, tls_alert |-> FALSE]
  IN  IF UsesTls(p.version)
      THEN
        LET stored == HasBufferedPackets(d.buffered_packets_, c)
            ing == IngestPacketForTlsChloExtraction(d.buffered_packets_, c,
                                                    p.payload)
            single == IngestPacket(NewTlsChloExtractor, p.payload)
            has_full_tls_chlo ==
              IF stored THEN ing.full ELSE HasParsedFullChlo(single)
            alert == IF stored THEN ing.alert
                     ELSE ~HasParsedFullChlo(single) /\ tls_alert(single)
            d1 == IF stored THEN [d EXCEPT !.buffered_packets_ = ing.store]
                  ELSE d
        IN  IF send_connection_close_for_tls_alerts_ /\ alert
            THEN [d |-> d1, parsed_chlo |-> FALSE, tls_alert |-> TRUE]
            ELSE IF ~has_full_tls_chlo
            THEN None(BufferEarlyPacket(d1, p))
            ELSE [d |-> EmplaceParsedChlo(
                          d1, p,
                          IF stored
                          THEN ing.store.lists[c].tls_chlo_extractor
                          ELSE single),
                  parsed_chlo |-> TRUE, tls_alert |-> FALSE]
      ELSE IF FLAGS_quic_allow_chlo_buffering
              /\ ~ChloExtractor_Extract(p.payload)
      THEN None(BufferEarlyPacket(d, p))
      ELSE IF /\ p.version_flag /\ ~HasIetfInvariantHeader(p.version)
              /\ validate_chlo_size
              /\ p.length < kMinClientInitialPacketLength
      THEN None(d)
      ELSE [d |-> d, parsed_chlo |-> TRUE, tls_alert |-> FALSE]

\* time_wait_list_manager()->SendPublicReset; reset_log remembers when the
\* peer address was last sent one.
SendPublicReset(d, peer, c) ==
  Send([d EXCEPT !.reset_log =
          {r \in @ : r.peer # peer} \cup {[peer |-> peer, age |-> 0]}],
       "public_reset", peer, c)

\* MaybeResetPacketsWithNoVersion that remembers hosts instead of peer
\* addresses: one reset per IP address, whatever the port.
MaybeResetPacketsWithNoVersionPerHost(d, p) ==
  IF \E a \in d.recent_stateless_reset_addresses_ : a.host = p.peer.host
  THEN d
  ELSE IF p.length <= GetMinStatelessResetPacketLength THEN d
  ELSE IF Cardinality(d.recent_stateless_reset_addresses_)
            >= FLAGS_quic_max_recent_stateless_reset_addresses
  THEN d
  ELSE SendPublicReset(
         [d EXCEPT
            !.clear_stateless_reset_addresses_alarm_ = TRUE,
            !.clear_stateless_reset_addresses_deadline_ =
               IF d.recent_stateless_reset_addresses_ = {}
               THEN FLAGS_quic_recent_stateless_reset_addresses_lifetime_ms
               ELSE @,
            !.recent_stateless_reset_addresses_ = @ \cup {p.peer}],
         p.peer, p.destination_connection_id)

\* MaybeResetPacketsWithNoVersion without the limit on the number of
\* addresses.
MaybeResetPacketsWithNoVersionUnbounded(d, p) ==
  IF p.peer \in d.recent_stateless_reset_addresses_ THEN d
  ELSE IF p.length <= GetMinStatelessResetPacketLength THEN d
  ELSE SendPublicReset(
         [d EXCEPT
            !.clear_stateless_reset_addresses_alarm_ = TRUE,
            !.clear_stateless_reset_addresses_deadline_ =
               IF d.recent_stateless_reset_addresses_ = {}
               THEN FLAGS_quic_recent_stateless_reset_addresses_lifetime_ms
               ELSE @,
            !.recent_stateless_reset_addresses_ = @ \cup {p.peer}],
         p.peer, p.destination_connection_id)

MaybeResetPacketsWithNoVersion(d, p) ==
  LET MinValidPacketLength ==
        1 + d.expected_server_connection_id_length_ + 1 + 1 + 12
  IN  IF p.peer \in d.recent_stateless_reset_addresses_ THEN d
      ELSE IF /\ p.form # "GOOGLE_QUIC_PACKET"
              /\ p.length <= GetMinStatelessResetPacketLength
      THEN d
      ELSE IF /\ p.form = "GOOGLE_QUIC_PACKET"
              /\ p.length < MinValidPacketLength
      THEN d
      ELSE IF Cardinality(d.recent_stateless_reset_addresses_)
                >= FLAGS_quic_max_recent_stateless_reset_addresses
      THEN d
      ELSE SendPublicReset(
             [d EXCEPT
                !.clear_stateless_reset_addresses_alarm_ =
                   IF d.recent_stateless_reset_addresses_ = {}
                   THEN TRUE ELSE @,
                !.clear_stateless_reset_addresses_deadline_ =
                   IF d.recent_stateless_reset_addresses_ = {}
                   THEN FLAGS_quic_recent_stateless_reset_addresses_lifetime_ms
                   ELSE @,
                !.recent_stateless_reset_addresses_ = @ \cup {p.peer}],
             p.peer, p.destination_connection_id)

\* [d, fate]
ValidityChecks(d, p) ==
  IF ~p.version_flag
  THEN [d |-> MaybeResetPacketsWithNoVersion(d, p), fate |-> "kFateDrop"]
  ELSE [d |-> d, fate |-> "kFateProcess"]

ValidityChecksOnFullChlo(d, p) == "kFateProcess"

TlsAlertToQuicErrorCode(alert) == "CRYPTO_ERROR_alert"

\* case kFateTimeWait of ProcessHeader without the final DiscardPackets.
FateTimeWaitKeepsPackets(d, p, connection_close_error_code, error_detail) ==
  LET c == p.destination_connection_id
      d1 == StatelesslyTerminateConnection(
              d, c, p.form, p.version_flag, p.version,
              connection_close_error_code, error_detail,
              "SEND_STATELESS_RESET")
  IN  TimeWaitProcessPacket(d1, p)

\* case kFateTimeWait of ProcessHeader.
FateTimeWait(d, p, connection_close_error_code, error_detail) ==
  LET c == p.destination_connection_id
      d1 == StatelesslyTerminateConnection(
              d, c, p.form, p.version_flag, p.version,
              connection_close_error_code, error_detail,
              "SEND_STATELESS_RESET")
      d2 == IF IsConnectionIdInTimeWait(d1.time_wait_list_manager_, c)
            THEN d1 ELSE Bug(d1, "dcheck_817")
      d3 == TimeWaitProcessPacket(d2, p)
  IN  [d3 EXCEPT !.buffered_packets_ = DiscardPackets(@, c),
                 !.out.discarded =
                    Len(d3.buffered_packets_.lists[c].buffered_packets)]

ProcessHeader(d0, p, env) ==
  LET d == Reach(d0, "ProcessHeader")
      v == ValidityChecks(d, p)
  IN  IF v.fate = "kFateProcess"
      THEN
        LET x == TryExtractChloOrBufferEarlyPacket(v.d, p)
        IN  IF send_connection_close_for_tls_alerts_ /\ x.tls_alert
            THEN FateTimeWait(Reach(x.d, "tls_alert"), p,
                              TlsAlertToQuicErrorCode("alert"),
                              "TLS handshake failure (Initial)")
            ELSE IF ~x.parsed_chlo THEN Reach(x.d, "ClientHelloIncomplete")
            ELSE LET fate == ValidityChecksOnFullChlo(x.d, p)
                 IN  IF fate = "kFateProcess" THEN ProcessChlo(x.d, p, env)
                     ELSE IF fate = "kFateTimeWait"
                     THEN FateTimeWait(x.d, p, "QUIC_HANDSHAKE_FAILED",
                                       "Reject connection")
                     ELSE x.d
      ELSE IF v.fate = "kFateTimeWait"
      THEN FateTimeWait(v.d, p, "QUIC_HANDSHAKE_FAILED", "Reject connection")
      ELSE v.d

ProcessPacketFrom(d, p, env) ==
  LET len == ConnectionIdLength(p.destination_connection_id)
  IN  IF p.parse_error THEN SetLastError(d, "QUIC_INVALID_PACKET_HEADER")
      ELSE IF /\ len # d.expected_server_connection_id_length_
              /\ ~should_update_expected_server_connection_id_length_
              /\ IsKnown(p.version)
              /\ ~AllowsVariableLengthConnectionIds(p.version)
      THEN SetLastError(d, "QUIC_INVALID_PACKET_HEADER")
      ELSE IF /\ p.version_flag /\ IsSupportedVersion(p.version)
              /\ ~IsConnectionIdValidForVersion(p.destination_connection_id,
                                                p.version)
      THEN SetLastError(d, "QUIC_INVALID_PACKET_HEADER")
      ELSE
        LET d1 == IF should_update_expected_server_connection_id_length_
                  THEN [d EXCEPT !.expected_server_connection_id_length_ = len]
                  ELSE d
            r == MaybeDispatchPacket(d1, p, env)
        IN  IF r.handled THEN r.d ELSE ProcessHeader(r.d, p, env)


(***************************************************************************)
(* The other entry points.                                                 *)
(***************************************************************************)
DeleteSessions(d) ==
  LET closed == Range(d.closed_session_list_)
      referenced == {d.reference_counted_session_map_[c] : c \in ConnectionIds}
  IN  [d EXCEPT
         !.write_blocked_list_ = @ \ closed,
         !.out.bugs = IF d.write_blocked_list_ \cap closed # {}
                      THEN @ \cup {"quic_bug_12724_2"} ELSE @,
         !.closed_session_list_ = <<>>,
         \* The last handle of a session goes: the session is destroyed.
         !.sessions = [s \in Sessions |->
                         IF s \in closed /\ s \notin referenced
                         THEN [@[s] EXCEPT !.state = "destroyed"]
                         ELSE @[s]]]

\* The loop of ProcessBufferedChlos taking the newest buffered CHLO first.
RECURSIVE ProcessBufferedChlosLoopNewestFirst(_, _)
ProcessBufferedChlosLoopNewestFirst(d, env) ==
  IF d.new_sessions_allowed_per_event_loop_ <= 0
     \/ d.buffered_packets_.connections_with_chlo_ = <<>>
  THEN d
  ELSE
    LET q == d.buffered_packets_.connections_with_chlo_
        c == q[Len(q)]
        n == DeliverPackets(d.buffered_packets_, c)
        r == CreateSessionFromChlo([d EXCEPT !.buffered_packets_ = n.store],
                                   c, n.list.version, env)
        d2 == IF r.session # 0
              THEN DeliverPacketsToSession(r.d, n.list.buffered_packets,
                                           r.session, env)
              ELSE r.d
    IN  ProcessBufferedChlosLoopNewestFirst(
          [d2 EXCEPT !.new_sessions_allowed_per_event_loop_ = @ - 1], env)

RECURSIVE ProcessBufferedChlosLoop(_, _)
ProcessBufferedChlosLoop(d, env) ==
  IF d.new_sessions_allowed_per_event_loop_ <= 0 THEN d
  ELSE
    LET n == DeliverPacketsForNextConnection(d.buffered_packets_)
        packets == n.list.buffered_packets
        d1 == [d EXCEPT !.buffered_packets_ = n.store]
        Continue(x) ==
          ProcessBufferedChlosLoop(
            [x EXCEPT !.new_sessions_allowed_per_event_loop_ = @ - 1], env)
    IN  IF packets = <<>> THEN d1
        ELSE IF n.list.parsed_chlo = 0
        THEN Continue(Bug(d1,
                          "quic_dispatcher_no_parsed_chlo_in_buffered_packets"))
        ELSE LET r == CreateSessionFromChlo(d1, n.cid, n.list.version, env)
             IN  IF r.session # 0
                 THEN Continue(DeliverPacketsToSession(r.d, packets,
                                                       r.session, env))
                 ELSE Continue(r.d)

\* ProcessBufferedChlos that hands the whole quota back after its loop.
ProcessBufferedChlosRestoringQuota(d, max_connections_to_create, env) ==
  [ProcessBufferedChlosLoop(
     [d EXCEPT !.new_sessions_allowed_per_event_loop_ =
                  max_connections_to_create],
     env)
   EXCEPT !.new_sessions_allowed_per_event_loop_ = max_connections_to_create]

ProcessBufferedChlosFrom(d, max_connections_to_create, env) ==
  ProcessBufferedChlosLoop(
    [d EXCEPT !.new_sessions_allowed_per_event_loop_ =
                 max_connections_to_create],
    env)

\* The expired list is dropped and its connection ID is not terminated.
OnExpiredPacketsWithoutTermination(d, server_connection_id, early_arrived_packets) == d

OnExpiredPackets(d, server_connection_id, early_arrived_packets) ==
  StatelesslyTerminateConnection(
    d, server_connection_id,
    IF early_arrived_packets.ietf_quic THEN "IETF_QUIC_LONG_HEADER_PACKET"
    ELSE "GOOGLE_QUIC_PACKET",
    TRUE, early_arrived_packets.version, "QUIC_HANDSHAKE_FAILED",
    "Packets buffered for too long", "SEND_STATELESS_RESET")

\* [ok, d]
\* An insertion that replaces the entry the new connection ID already has.
TryAddNewConnectionIdOverwrites(d, server_connection_id, new_connection_id) ==
  LET map == d.reference_counted_session_map_
  IN  IF map[server_connection_id] = NoEntry
      THEN [ok |-> FALSE, d |-> Bug(d, "quic_bug_10287_7")]
      ELSE [ok |-> map[new_connection_id] = NoEntry,
            d |-> [d EXCEPT
                     !.reference_counted_session_map_[new_connection_id] =
                        map[server_connection_id]]]

\* [ok, d]
TryAddNewConnectionId(d, server_connection_id, new_connection_id) ==
  LET map == d.reference_counted_session_map_
  IN  IF map[server_connection_id] = NoEntry
      THEN [ok |-> FALSE, d |-> Bug(d, "quic_bug_10287_7")]
      ELSE IF map[new_connection_id] # NoEntry
      THEN [ok |-> FALSE, d |-> d]
      ELSE [ok |-> TRUE,
            d |-> [d EXCEPT
                     !.reference_counted_session_map_[new_connection_id] =
                        map[server_connection_id]]]

\* OnConnectionIdRetired if it also gave up the count of a session whose
\* last entry it erases.
OnConnectionIdRetiredReleasingLast(d, server_connection_id) ==
  LET map == d.reference_counted_session_map_
      s == map[server_connection_id]
  IN  [d EXCEPT
         !.reference_counted_session_map_[server_connection_id] = NoEntry,
         !.num_sessions_in_session_map_ =
            IF s # NoEntry
               /\ \A c \in ConnectionIds \ {server_connection_id} : map[c] # s
            THEN @ - 1 ELSE @]

OnConnectionIdRetired(d, server_connection_id) ==
  Release(d,
    [d EXCEPT !.reference_counted_session_map_[server_connection_id] = NoEntry])

\* StopAcceptingNewConnections that leaves the buffered lists in the store.
StopAcceptingNewConnectionsKeepsStore(d) ==
  [d EXCEPT !.accept_new_connections_ = FALSE]

StopAcceptingNewConnections(d) ==
  [d EXCEPT !.accept_new_connections_ = FALSE,
            !.buffered_packets_ = DiscardAllPackets(@)]

StartAcceptingNewConnections(d) == [d EXCEPT !.accept_new_connections_ = TRUE]

\* ClearStatelessResetAddresses that forgets one address only.
ClearOneStatelessResetAddress(d) ==
  [d EXCEPT !.recent_stateless_reset_addresses_ =
     IF @ = {} THEN @ ELSE @ \ {CHOOSE a \in @ : TRUE}]

ClearStatelessResetAddresses(d) ==
  [d EXCEPT !.recent_stateless_reset_addresses_ = {}]

\* OnWriteBlocked(blocked_writer), the writer being the connection of
\* session blocked_writer; is_writer_blocked is what IsWriterBlocked()
\* returns.
OnWriteBlocked(d, blocked_writer, is_writer_blocked) ==
  IF ~is_writer_blocked THEN Bug(d, "quic_bug_12724_4")
  ELSE [d EXCEPT !.write_blocked_list_ = @ \cup {blocked_writer}]

\* list.begin() for a list of writers: the one of list that order puts
\* first (the model does not keep the order of insertion of
\* WriteBlockedList; order stands for it).
FirstWriter(list, order) ==
  order[CHOOSE i \in 1..Len(order) :
          /\ order[i] \in list
          /\ \A j \in 1..(i - 1) : order[j] \notin list]

\* OnBlockedWriterCanWrite of a connection: it writes, and if it is one of
\* blocked_again the socket blocks it again and it calls OnWriteBlocked.
OnBlockedWriterCanWrite(d, blocked_writer, blocked_again) ==
  LET d1 == [d EXCEPT !.out.can_write.calls = Append(@, blocked_writer)]
  IN  IF blocked_writer \in blocked_again
      THEN OnWriteBlocked(d1, blocked_writer, TRUE)
      ELSE d1

\* OnCanWrite working through write_blocked_list_ itself, with no temporary
\* list; n bounds the iterations followed.
RECURSIVE OnCanWriteLoopInPlace(_, _, _, _)
OnCanWriteLoopInPlace(d, order, blocked_again, n) ==
  IF d.write_blocked_list_ = {} \/ n = 0 THEN d
  ELSE
    LET blocked_writer == FirstWriter(d.write_blocked_list_, order)
        d1 == [d EXCEPT !.write_blocked_list_ = @ \ {blocked_writer}]
    IN  OnCanWriteLoopInPlace(
          OnBlockedWriterCanWrite(d1, blocked_writer, blocked_again),
          order, blocked_again, n - 1)

OnCanWriteInPlace(d, order, blocked_again) ==
  OnCanWriteLoopInPlace(
    [d EXCEPT !.out.can_write.before = d.write_blocked_list_,
              !.out.can_write.again = blocked_again],
    order, blocked_again, 2 * Cardinality(Sessions))

\* The while loop of OnCanWrite over temp_list.
RECURSIVE OnCanWriteLoop(_, _, _, _)
OnCanWriteLoop(d, temp_list, order, blocked_again) ==
  IF temp_list = {} THEN d
  ELSE
    LET blocked_writer == FirstWriter(temp_list, order)
    IN  OnCanWriteLoop(
          OnBlockedWriterCanWrite(d, blocked_writer, blocked_again),
          temp_list \ {blocked_writer}, order, blocked_again)

OnCanWrite(d, order, blocked_again) ==
  LET temp_list == d.write_blocked_list_
      d1 == [d EXCEPT !.out.can_write.before = d.write_blocked_list_,
                      !.out.can_write.again = blocked_again,
                      !.write_blocked_list_ = {}]
  IN  OnCanWriteLoop(d1, temp_list, order, blocked_again)

\* reference_counted_session_map_.begin(): the hash map iterates in an
\* order the program does not choose; order is that order.
Begin(map, order) ==
  order[CHOOSE i \in 1..Len(order) :
          /\ map[order[i]] # NoEntry
          /\ \A j \in 1..(i - 1) : map[order[j]] = NoEntry]

\* The while loop of Shutdown; n bounds the iterations the model follows
\* (an iteration that leaves the first entry in place repeats for ever).
RECURSIVE ShutdownLoop(_, _, _, _)
ShutdownLoop(d, order, env, n) ==
  LET map == d.reference_counted_session_map_
  IN  IF \A c \in ConnectionIds : map[c] = NoEntry THEN d
      ELSE IF n = 0 THEN [d EXCEPT !.out.shutdown.hung = TRUE]
      ELSE
        LET s == map[Begin(map, order)]
        IN  IF s = NullHandle
            THEN [Bug(d, "null_dereference") EXCEPT !.out.shutdown.hung = TRUE]
            ELSE
              LET d1 == [d EXCEPT !.out.shutdown.closes =
                           Append(@, [session |-> s,
                                      error |-> "QUIC_PEER_GOING_AWAY"])]
                  \* CloseConnection does nothing when the connection is
                  \* not connected.
                  d2 == IF d.sessions[s].state = "live"
                        THEN SessionCloses(
                               d1, s, OneActiveServerConnectionId(d1, s), env)
                        ELSE d1
                  map2 == d2.reference_counted_session_map_
                  d3 == IF (\A c \in ConnectionIds : map2[c] = NoEntry)
                           \/ map2[Begin(map2, order)] # s
                        THEN d2 ELSE Bug(d2, "dcheck_1102")
              IN  ShutdownLoop(d3, order, env, n - 1)

\* Shutdown without the final DeleteSessions.
ShutdownKeepsClosedSessions(d, order, env) ==
  ShutdownLoop([d EXCEPT !.out.shutdown.live =
                  {s \in Sessions : d.sessions[s].state = "live"}],
               order, env, Cardinality(ConnectionIds) + 1)

Shutdown(d, order, env) ==
  LET d0 == [d EXCEPT !.out.shutdown.live =
               {s \in Sessions : d.sessions[s].state = "live"}]
      d1 == ShutdownLoop(d0, order, env, Cardinality(ConnectionIds) + 1)
  IN  IF d1.out.shutdown.hung THEN d1 ELSE DeleteSessions(d1)

(***************************************************************************)
(* Inputs.                                                                 *)
(***************************************************************************)
Peer1 == [host |-> "10.0.0.1", port |-> 40000]

\* What the sessions touched by an entry point do (see ProcessUdpPacket).
Envs ==
  {[close_at |-> 0, termination_packets |-> FALSE,
    handshake_complete |-> FALSE, factory_ok |-> f] : f \in BOOLEAN}
  \cup
  {[close_at |-> k, termination_packets |-> t, handshake_complete |-> h,
    factory_ok |-> TRUE] :
     k \in 1..MaxCloseAt, t \in BOOLEAN, h \in BOOLEAN}

Quiet == [close_at |-> 0, termination_packets |-> FALSE,
          handshake_complete |-> FALSE, factory_ok |-> TRUE]

\* INITIAL packets of a TLS version, of the minimum length.
InitialPackets(cids, payloads) ==
  {[id |-> 0, peer |-> Peer1, parse_error |-> FALSE,
    form |-> "IETF_QUIC_LONG_HEADER_PACKET", long_packet_type |-> "INITIAL",
    version_flag |-> TRUE, version |-> "TLS", destination_connection_id |-> c,
    length |-> 1200, payload |-> y, retry_token |-> "none"] :
     c \in cids, y \in payloads}

\* Short-header packets: no version.
ShortPackets(cids) ==
  {[id |-> 0, peer |-> Peer1, parse_error |-> FALSE,
    form |-> "IETF_QUIC_SHORT_HEADER_PACKET",
    long_packet_type |-> "INVALID_PACKET_TYPE", version_flag |-> FALSE,
    version |-> "UNSUPPORTED", destination_connection_id |-> c,
    length |-> 1200, payload |-> "data", retry_token |-> "none"] :
     c \in cids}

\* Other peer addresses: the same host on another port, and another host.
Peer2 == [host |-> "10.0.0.1", port |-> 40001]
Peer3 == [host |-> "10.0.0.2", port |-> 40000]
Peers == {Peer1, Peer2, Peer3}

\* Packets without a version from several peers, of several lengths.
VersionlessPackets(cids, peers, lengths) ==
  {[p EXCEPT !.peer = a, !.length = n] :
     p \in ShortPackets(cids), a \in peers, n \in lengths}

\* Datagrams P as they arrive from source port port.
FromPort(P, port) == {[p EXCEPT !.peer.port = port] : p \in P}

\* Datagrams P with retry token t in their header.
WithRetryToken(P, t) == {[p EXCEPT !.retry_token = t] : p \in P}

\* Datagrams P with a public header the framer cannot parse.
WithFramingError(P) == {[p EXCEPT !.parse_error = TRUE] : p \in P}

\* Datagrams P of a version with connection IDs of one length only.
OfVersion(P, v) == {[p EXCEPT !.version = v] : p \in P}

\* The same from a source port the dispatcher blocks (DNS).
BlockedPortPackets(cids) ==
  {[p EXCEPT !.peer.port = 53] : p \in ShortPackets(cids)}

(***************************************************************************)
(* Initial state and actions.                                              *)
(***************************************************************************)
\* The dispatcher after its constructor.
ConstructedWith(expected_server_connection_id_length) ==
  /\ reference_counted_session_map_ = [c \in ConnectionIds |-> NoEntry]
  /\ num_sessions_in_session_map_ = 0
  /\ closed_session_list_ = <<>>
  /\ delete_sessions_alarm_ = FALSE
  /\ buffered_packets_ = EmptyStore
  /\ time_wait_list_manager_ = [c \in ConnectionIds |-> NotInTimeWait]
  /\ new_sessions_allowed_per_event_loop_ = 0
  /\ accept_new_connections_ = TRUE
  /\ last_error_ = "QUIC_NO_ERROR"
  /\ expected_server_connection_id_length_ =
       expected_server_connection_id_length
  /\ recent_stateless_reset_addresses_ = {}
  /\ clear_stateless_reset_addresses_alarm_ = FALSE
  /\ clear_stateless_reset_addresses_deadline_ = 0
  /\ reset_log = {}
  /\ write_blocked_list_ = {}
  /\ sessions = [s \in Sessions |-> NoSession]

Constructed == ConstructedWith(kQuicDefaultConnectionIdLength)

Init == Constructed /\ out = NoOut

Done(d) == ~d.out.overflow /\ Commit(d)

\* A datagram is named by its arrival number among the datagrams the store
\* holds for its connection ID.
ArrivalNumber(c) == Len(buffered_packets_.lists[c].buffered_packets) + 1

\* out.packet keeps the whole datagram (observe) or only its connection ID,
\* peer, form, length and flags.
Observed(p, observe) ==
  IF observe THEN p
  ELSE [NoPacket EXCEPT
          !.destination_connection_id = p.destination_connection_id,
          !.peer = p.peer, !.form = p.form, !.length = p.length,
          !.parse_error = p.parse_error,
          !.version_flag = p.version_flag, !.version = p.version]

ProcessPacket(p, env, observe) ==
  Done(ProcessPacketFrom(
         [Enter("ProcessPacket") EXCEPT !.out.packet = Observed(p, observe)],
         p, env))

\* ProcessPacket on one of the datagrams P, the sessions behaving as one of E.
Receive(P, E) ==
  \E p \in P, env \in E :
    ProcessPacket(
      [p EXCEPT !.id = ArrivalNumber(p.destination_connection_id)], env,
      FALSE)

ReceivePacket ==
  Receive(InitialPackets(CIDs, Payloads) \cup ShortPackets(CIDs), Envs)

\* ProcessBufferedChlos(n) for an n of N, the sessions behaving as one of E.
BufferedChlos(N, E) ==
  \E n \in N, env \in E :
    Done(ProcessBufferedChlosFrom(
           [Enter("ProcessBufferedChlos") EXCEPT
              !.out.arg = n,
              !.out.loop = [max_connections_to_create |-> n, created |-> 0]],
           n, env))

ProcessBufferedChlos == BufferedChlos(0..MaxConnectionsToCreate, Envs)

\* A live session closes its connection by itself (an idle timeout, an
\* application error) as one of E says; it names one of its active
\* connection IDs.
SessionClosed(E) ==
  \E s \in Sessions, env \in E :
    /\ sessions[s].state = "live"
    /\ \E c \in sessions[s].active :
         Done(SessionCloses(Enter("OnConnectionClosed"), s, c, env))

ConnectionClosed == SessionClosed({e \in Envs : e.close_at = 1})

\* A live session issues a new connection ID and keeps it when the
\* dispatcher accepts it.
IssueConnectionId(ids) ==
  \E s \in Sessions, new \in ids :
    /\ sessions[s].state = "live"
    /\ new \notin sessions[s].active
    /\ \E c \in sessions[s].active :
         LET r == TryAddNewConnectionId(Enter("TryAddNewConnectionId"), c, new)
         IN  Done(IF r.ok
                  THEN [r.d EXCEPT !.sessions[s].active = @ \cup {new}]
                  ELSE r.d)

NewConnectionId == IssueConnectionId(CIDs)

\* A live session retires one of its connection IDs.
ConnectionIdRetired ==
  \E s \in Sessions :
    /\ sessions[s].state = "live"
    /\ \E c \in sessions[s].active :
         Done([OnConnectionIdRetired(Enter("OnConnectionIdRetired"), c)
                 EXCEPT !.sessions[s].active = @ \ {c}])

DeleteSessionsAlarm ==
  /\ delete_sessions_alarm_
  /\ Done(DeleteSessions([Enter("DeleteSessions")
                            EXCEPT !.delete_sessions_alarm_ = FALSE]))

\* The store's expiry alarm: the oldest list has expired.
ExpirePackets ==
  /\ buffered_packets_.order # <<>>
  /\ LET c == Head(buffered_packets_.order)
         d == Enter("OnExpiredPackets")
     IN  Done(OnExpiredPackets(
                [d EXCEPT !.buffered_packets_ = DiscardPackets(@, c)], c,
                buffered_packets_.lists[c]))

\* The time-wait list's own expiry.
TimeWaitExpires ==
  \E c \in ConnectionIds :
    /\ IsConnectionIdInTimeWait(time_wait_list_manager_, c)
    /\ Done([Enter("TimeWaitExpires")
               EXCEPT !.time_wait_list_manager_[c] = NotInTimeWait])

StopAccepting ==
  /\ accept_new_connections_
  /\ Done(StopAcceptingNewConnections(Enter("StopAcceptingNewConnections")))

StartAccepting ==
  /\ ~accept_new_connections_
  /\ Done(StartAcceptingNewConnections(Enter("StartAcceptingNewConnections")))

\* The clock advances by one tick: the alarm's deadline comes nearer and
\* the resets sent grow older (ages beyond the lifetime are not told apart).
AdvanceTime ==
  Done([Enter("AdvanceTime") EXCEPT
          !.clear_stateless_reset_addresses_deadline_ =
             IF @ > 0 THEN @ - 1 ELSE 0,
          !.reset_log =
             {[r EXCEPT !.age =
                 IF @ < FLAGS_quic_recent_stateless_reset_addresses_lifetime_ms
                 THEN @ + 1 ELSE @] : r \in @}])

\* The orders in which the session map may iterate.
Orders ==
  {o \in [1..Cardinality(ConnectionIds) -> ConnectionIds] :
     \A c \in ConnectionIds : \E i \in DOMAIN o : o[i] = c}

\* The server shuts down; E is what the connections it closes report.
ShutdownServer(E) ==
  \E order \in Orders, env \in E :
    Done(Shutdown(Enter("Shutdown"), order, env))

\* The connection of a live session finds the socket blocked (or, by a
\* programming error, does not) and calls OnWriteBlocked.
WriteBlocked ==
  \E s \in Sessions, is_writer_blocked \in BOOLEAN :
    /\ sessions[s].state = "live"
    /\ Done(OnWriteBlocked([Enter("OnWriteBlocked") EXCEPT !.out.arg = s],
                           s, is_writer_blocked))

\* The orders in which the blocked writers may be listed.
WriterOrders ==
  {o \in [1..Cardinality(Sessions) -> Sessions] :
     \A s \in Sessions : \E i \in DOMAIN o : o[i] = s}

\* The socket becomes writable.
CanWrite ==
  \E order \in WriterOrders, blocked_again \in SUBSET Sessions :
    Done(OnCanWrite(Enter("OnCanWrite"), order, blocked_again))

\* The clear-addresses alarm runs at its deadline, or later.
ClearStatelessResetAddressesAlarm ==
  /\ clear_stateless_reset_addresses_alarm_
  /\ clear_stateless_reset_addresses_deadline_ = 0
  /\ Done(ClearStatelessResetAddresses(
            [Enter("ClearStatelessResetAddresses")
               EXCEPT !.clear_stateless_reset_addresses_alarm_ = FALSE]))

Next ==
  \/ ReceivePacket
  \/ ProcessBufferedChlos
  \/ ConnectionClosed
  \/ NewConnectionId
  \/ ConnectionIdRetired
  \/ DeleteSessionsAlarm
  \/ ExpirePackets
  \/ TimeWaitExpires
  \/ StopAccepting
  \/ StartAccepting
  \/ ClearStatelessResetAddressesAlarm
  \/ ShutdownServer({e \in Envs : e.close_at = 1 /\ e.termination_packets})
  \/ AdvanceTime
  \/ WriteBlocked
  \/ CanWrite

Spec == Init /\ [][Next]_vars

(***************************************************************************)
(* Specifications over parts of the input alphabet.                        *)
(***************************************************************************)
\* CHLO buffering and session creation: INITIAL packets carrying a whole
\* CHLO, its two fragments or no handshake bytes, for every connection ID,
\* and ProcessBufferedChlos; the sessions stay open.
ChloNext ==
  \/ Receive(InitialPackets(CIDs, {"chlo", "frag1", "frag2", "data"}),
             {Quiet})
  \/ BufferedChlos(0..MaxConnectionsToCreate, {Quiet})

SpecChlo == Init /\ [][ChloNext]_vars

(***************************************************************************)
(* Where a connection ID is.                                               *)
(***************************************************************************)
InSessionMap(c) == reference_counted_session_map_[c] # NoEntry
InBufferedStore(c) == HasBufferedPackets(buffered_packets_, c)
InTimeWait(c) == IsConnectionIdInTimeWait(time_wait_list_manager_, c)

\* C1: between two entry points every connection ID is in at most one of
\* the session map, the buffered-packet store and the time-wait list.
C1_AtMostOnePlace ==
  \A c \in CIDs :
    /\ ~(InSessionMap(c) /\ InBufferedStore(c))
    /\ ~(InSessionMap(c) /\ InTimeWait(c))
    /\ ~(InBufferedStore(c) /\ InTimeWait(c))

\* C2: neither assertion that guards session delivery in MaybeDispatchPacket
\* (the store holds no list for a connection ID found in the session map)
\* fails.
C2_DispatchAssertionsHold ==
  /\ "dcheck_597" \notin out.bugs
  /\ "dcheck_644" \notin out.bugs

(***************************************************************************)
(* Delivery to sessions that may close while they process a packet.        *)
(***************************************************************************)
\* The sessions stay open, or close (handshake not complete, no termination
\* packets) while processing the k-th packet an entry point hands them.
DeliverEnvs ==
  {e \in Envs : e.factory_ok /\ ~e.termination_packets
                              /\ ~e.handshake_complete}

DeliverNext ==
  \/ Receive(InitialPackets(CIDs, {"chlo", "frag1", "data"}), DeliverEnvs)
  \/ BufferedChlos(0..MaxConnectionsToCreate, DeliverEnvs)
  \/ DeleteSessionsAlarm

SpecDeliver == Init /\ [][DeliverNext]_vars

\* The packets the last entry point passed to ProcessUdpPacket of session s
\* before its i-th delivery.
EarlierDeliveries(i) ==
  {j \in 1..(i - 1) : out.deliveries[j].session = out.deliveries[i].session}

RECURSIVE DeliveredTo(_, _)
DeliveredTo(deliveries, s) ==
  IF deliveries = <<>> THEN <<>>
  ELSE IF Head(deliveries).session = s
       THEN <<Head(deliveries).packet>> \o DeliveredTo(Tail(deliveries), s)
       ELSE DeliveredTo(Tail(deliveries), s)

\* The datagram the CHLO of c was completed by: the packet being processed
\* (ProcessChlo) or the one the store recorded (ProcessBufferedChlos).
ChloDatagram(c, op) ==
  IF op = "ProcessPacket" THEN ArrivalNumber(c)
  ELSE buffered_packets_.lists[c].parsed_chlo

\* The datagrams that have arrived for c and were not yet given to a session.
Arrived(c, op) ==
  Range(buffered_packets_.lists[c].buffered_packets)
    \cup (IF op = "ProcessPacket" THEN {ArrivalNumber(c)} ELSE {})

\* C4: a session created from a CHLO is passed the CHLO-bearing datagram
\* first and then every other datagram buffered for the connection ID, each
\* exactly once and in arrival order, whether ProcessChlo or
\* ProcessBufferedChlos creates it and whether the CHLO-completing datagram
\* arrived first or last.
C4_ChloFirstThenArrivalOrder ==
  [][\A k \in 1..Len(out'.created) :
       LET cr == out'.created[k]
           chlo == ChloDatagram(cr.original, out'.op)
       IN  DeliveredTo(out'.deliveries, cr.session)
             = <<chlo>> \o SetToSeq(Arrived(cr.original, out'.op) \ {chlo})]_vars

\* ProcessBufferedChlos created a session from a CHLO that arrived after two
\* other datagrams of its connection: it was given the third datagram, then
\* the first and the second.
C4_Witness ==
  /\ out.op = "ProcessBufferedChlos"
  /\ \E k \in 1..Len(out.created) :
       DeliveredTo(out.deliveries, out.created[k].session) = <<3, 1, 2>>

Min(a, b) == IF a <= b THEN a ELSE b

Position(q, c) == CHOOSE i \in 1..Len(q) : q[i] = c

\* a and b are in q and in r, in the same order.
SameOrder(q, r, a, b) ==
  (Position(q, a) < Position(q, b)) <=> (Position(r, a) < Position(r, b))

\* C6: sessions are created from buffered CHLOs in the order the CHLOs were
\* buffered.  A CHLO that is buffered goes behind the CHLOs waiting, the
\* CHLOs waiting keep their order whatever else happens, and
\* ProcessBufferedChlos attempts session creation for the CHLOs at the head
\* of that order, oldest first, as many as its quota allows; the rest waits
\* in the same order for the next call.
C6_BufferedChlosInFifoOrder ==
  [][LET q == buffered_packets_.connections_with_chlo_
         r == buffered_packets_'.connections_with_chlo_
         taken == Min(out'.arg, Len(q))
     IN  /\ \A a, b \in Range(q) \cap Range(r) : SameOrder(q, r, a, b)
         /\ \A a \in Range(q) \cap Range(r), b \in Range(r) \ Range(q) :
              Position(r, a) < Position(r, b)
         /\ out'.op = "ProcessBufferedChlos"
              => /\ out'.attempts = SubSeq(q, 1, taken)
                 /\ r = SubSeq(q, taken + 1, Len(q))
         /\ out'.op # "ProcessBufferedChlos" => out'.attempts \in {<<>>, <<out'.packet.destination_connection_id>>}]_vars

\* Two CHLOs were buffered, a first ProcessBufferedChlos(1) took the older
\* one and this one takes the other.
C6_Witness ==
  /\ out.op = "ProcessBufferedChlos"
  /\ out.arg = 1
  /\ Len(out.attempts) = 1
  /\ out.loop.created = 1
  /\ num_sessions_in_session_map_ = 2
  /\ buffered_packets_.connections_with_chlo_ = <<>>

(***************************************************************************)
(* Connection ID collisions.                                               *)
(***************************************************************************)
ConnectionClose ==
  [action |-> "SEND_TERMINATION_PACKETS", packets |-> "connection_close"]

\* The sessions the last entry point created.
Created(o) == {o.created[k].session : k \in 1..Len(o.created)}

HandshakeFailed ==
  {e \in Envs : e.close_at = 1 /\ ~e.termination_packets
                                /\ ~e.handshake_complete}

\* CHLOs for the connection ID that is replaced, short-header packets for
\* every connection ID, also from a blocked port, and sessions that issue
\* a connection ID no CHLO was addressed to, retire connection IDs and close.
RouteNext ==
  \/ Receive(InitialPackets({"a9"}, {"chlo"}) \cup ShortPackets(CIDs)
               \cup BlockedPortPackets({"a9", "r8"}),
             {Quiet})
  \/ BufferedChlos(1..MaxConnectionsToCreate, {Quiet})
  \/ IssueConnectionId({"b8"})
  \/ ConnectionIdRetired
  \/ SessionClosed(HandshakeFailed)
  \/ DeleteSessionsAlarm

SpecRoute == Init /\ [][RouteNext]_vars

\* The last entry point handed its packet to session s and to nobody else.
DeliveredOnlyTo(s) ==
  /\ Len(out.deliveries) = 1
  /\ out.deliveries[1].session = s
  /\ out.created = <<>>
  /\ out.sent = <<>>

\* C8 as stated: as long as a session created under a replaced connection ID
\* is live, every packet addressed to its replacement ID or to its original
\* ID is delivered to it and to nobody else.
C8_BothIdsRouteWhileLive ==
  [][\A s \in Sessions :
       (/\ sessions[s].state = "live"
        /\ sessions[s].original # "none"
        /\ out'.op = "ProcessPacket"
        /\ out'.packet.destination_connection_id
             \in {sessions[s].connection_id, sessions[s].original})
         => DeliveredOnlyTo(s)']_vars

\* C8 amended: a session created under a replaced connection ID is entered
\* in the session map under the replacement and, unless another session
\* owns it, under the original ID; a connection ID stays mapped to its
\* session until OnConnectionIdRetired is called for it or the session
\* closes; and a packet with a parsable header from a source port that is
\* not blocked, addressed to a connection ID the map holds, is delivered to
\* the session it is mapped to and to nobody else.
C8_MappedIdsRoute ==
  [][/\ \A k \in 1..Len(out'.created) :
          LET cr == out'.created[k]
          IN  /\ reference_counted_session_map_'[cr.server] = cr.session
              /\ (cr.server # cr.original
                    /\ reference_counted_session_map_[cr.original] = NoEntry)
                   => reference_counted_session_map_'[cr.original] = cr.session
     /\ \A c \in CIDs :
          (/\ reference_counted_session_map_[c] \in Sessions
           /\ reference_counted_session_map_'[c]
                # reference_counted_session_map_[c])
            => \/ /\ out'.op = "OnConnectionIdRetired"
                  /\ c \in sessions[reference_counted_session_map_[c]].active
               \/ \E k \in 1..Len(out'.closed) :
                    out'.closed[k].session = reference_counted_session_map_[c]
     /\ \A c \in CIDs :
          (/\ out'.op = "ProcessPacket"
           /\ out'.packet.destination_connection_id = c
           /\ ~IsSourceUdpPortBlocked(out'.packet.peer.port)
           /\ reference_counted_session_map_[c] \in Sessions)
            => /\ DeliveredOnlyTo(reference_counted_session_map_[c])'
               /\ out'.deliveries[1].state = "live"
               /\ buffered_packets_' = buffered_packets_
               /\ time_wait_list_manager_' = time_wait_list_manager_]_vars

\* A packet addressed to the original connection ID of a session created
\* under a replacement has been delivered to that session.
C8_Witness ==
  \E s \in Sessions :
    /\ sessions[s].state = "live"
    /\ sessions[s].original = "a9"
    /\ sessions[s].connection_id = "r8"
    /\ out.op = "ProcessPacket"
    /\ out.packet.destination_connection_id = "a9"
    /\ DeliveredOnlyTo(s)

(***************************************************************************)
(* Closing sessions.                                                       *)
(***************************************************************************)
\* Sessions that stay open, and sessions that close on the first packet
\* they are handed, with or without termination packets, before or after
\* the handshake.
CloseEnvs == {Quiet} \cup {e \in Envs : e.close_at = 1}

\* CHLOs for two connection IDs, short-header packets, and sessions that
\* issue connection IDs and close: on their own, or while they process a
\* packet.
CloseNext ==
  \/ Receive(InitialPackets({"a9", "b8"}, {"chlo"}) \cup ShortPackets(CIDs),
             CloseEnvs)
  \/ BufferedChlos(1..MaxConnectionsToCreate, {Quiet})
  \/ IssueConnectionId(CIDs)
  \/ SessionClosed(CloseEnvs \ {Quiet})
  \/ DeleteSessionsAlarm

SpecClose == Init /\ [][CloseNext]_vars

\* The same without issued connection IDs, and with sessions that close
\* before the handshake only.
DeleteNext ==
  \/ Receive(InitialPackets({"a9", "b8"}, {"chlo"})
               \cup ShortPackets({"a9", "b8"}),
             {Quiet} \cup HandshakeFailed)
  \/ BufferedChlos(1..MaxConnectionsToCreate, {Quiet})
  \/ SessionClosed(HandshakeFailed)
  \/ DeleteSessionsAlarm

\* The alarm factory runs an alarm that is set.
FairSpecDelete ==
  Init /\ [][DeleteNext]_vars /\ WF_vars(DeleteSessionsAlarm)

ShutdownEnvs == {e \in Envs : e.close_at = 1 /\ e.termination_packets}

\* Sessions with one or two connection IDs, some of them closed before the
\* server shuts down, some CHLOs still buffered.
ShutdownNext ==
  \/ Receive(InitialPackets({"a9", "b8"}, {"chlo"}) \cup ShortPackets(CIDs),
             {Quiet} \cup HandshakeFailed)
  \/ BufferedChlos(1..MaxConnectionsToCreate, {Quiet})
  \/ IssueConnectionId({"r8"})
  \/ SessionClosed(HandshakeFailed)
  \/ DeleteSessionsAlarm
  \/ ShutdownServer(ShutdownEnvs)

SpecShutdown == Init /\ [][ShutdownNext]_vars

\* The number of times Shutdown closed the connection of session s.
TimesClosed(s) ==
  Cardinality({k \in 1..Len(out.shutdown.closes) :
                 /\ out.shutdown.closes[k].session = s
                 /\ out.shutdown.closes[k].error = "QUIC_PEER_GOING_AWAY"})

ResetNext ==
  \/ Receive(InitialPackets({"a9"}, {"chlo"})
               \cup VersionlessPackets({"a9", "b8"}, Peers,
                                       {GetMinStatelessResetPacketLength,
                                        kMinClientInitialPacketLength}),
             {Quiet})
  \/ BufferedChlos({1}, {Quiet})
  \/ SessionClosed(HandshakeFailed)
  \/ DeleteSessionsAlarm
  \/ AdvanceTime
  \/ ClearStatelessResetAddressesAlarm

SpecReset == Init /\ [][ResetNext]_vars

\* The last entry point was ProcessPacket and it sent a stateless reset
\* from MaybeResetPacketsWithNoVersion to peer address a.
ResetSentTo(a) ==
  /\ out.op = "ProcessPacket"
  /\ \E k \in 1..Len(out.sent) :
       out.sent[k].kind = "public_reset" /\ out.sent[k].peer = a

\* C12: a stateless reset is sent to a peer address only if the last reset
\* to that address is at least the lifetime of the recent-reset addresses
\* old.
C12_ResetsSpacedByLifetime ==
  [][\A r \in reset_log :
       ResetSentTo(r.peer)'
         => r.age >= FLAGS_quic_recent_stateless_reset_addresses_lifetime_ms
    ]_vars

\* The dispatcher's state, without the report of the last entry point.
state ==
  <<reference_counted_session_map_, num_sessions_in_session_map_,
    closed_session_list_, delete_sessions_alarm_, buffered_packets_,
    time_wait_list_manager_, new_sessions_allowed_per_event_loop_,
    accept_new_connections_, last_error_,
    expected_server_connection_id_length_,
    recent_stateless_reset_addresses_,
    clear_stateless_reset_addresses_alarm_,
    clear_stateless_reset_addresses_deadline_, write_blocked_list_, sessions,
    reset_log>>

\* No session, no buffered CHLO and no time-wait entry for connection ID c.
UnknownConnectionId(c) ==
  /\ reference_counted_session_map_[c] = NoEntry
  /\ ~HasChloForConnection(buffered_packets_, c)
  /\ ~InTimeWait(c)

\* The packet the last ProcessPacket was given has no version and is for a
\* connection ID that was unknown when it arrived.
VersionlessForUnknown ==
  /\ out'.op = "ProcessPacket"
  /\ ~out'.packet.version_flag
  /\ ~out'.packet.parse_error
  /\ UnknownConnectionId(out'.packet.destination_connection_id)

\* C13: a packet without a version for an unknown connection ID from a
\* peer address in the recent-reset set produces no outbound packet and
\* changes no state; from the IP address of a recorded address but another
\* port, long enough and with room in the set, it gets a reset of its own
\* and its address is recorded.
C13_RecentAddressGetsNoReset ==
  [][VersionlessForUnknown =>
       /\ out'.packet.peer \in recent_stateless_reset_addresses_
            => /\ out'.sent = <<>>
               /\ out'.deliveries = <<>>
               /\ UNCHANGED state
       /\ (/\ out'.packet.peer \notin recent_stateless_reset_addresses_
           /\ \E a \in recent_stateless_reset_addresses_ :
                a.host = out'.packet.peer.host
           /\ ~IsSourceUdpPortBlocked(out'.packet.peer.port)
           /\ out'.packet.form # "GOOGLE_QUIC_PACKET"
           /\ out'.packet.length > GetMinStatelessResetPacketLength
           /\ Cardinality(recent_stateless_reset_addresses_)
                < FLAGS_quic_max_recent_stateless_reset_addresses)
            => /\ out'.sent
                    = <<[kind |-> "public_reset", peer |-> out'.packet.peer,
                         cid |-> out'.packet.destination_connection_id]>>
               /\ recent_stateless_reset_addresses_'
                    = recent_stateless_reset_addresses_
                        \cup {out'.packet.peer}
    ]_vars

\* Both ports of one host have had their reset, and a further packet from
\* the first has been dropped in silence.
C13_Witness ==
  /\ out.op = "ProcessPacket"
  /\ ~out.packet.version_flag
  /\ out.packet.peer = Peer1
  /\ out.packet.length > GetMinStatelessResetPacketLength
  /\ UnknownConnectionId(out.packet.destination_connection_id)
  /\ {Peer1, Peer2} \subseteq recent_stateless_reset_addresses_
  /\ out.sent = <<>>
  /\ \E r \in reset_log : r.peer = Peer2 /\ r.age = 0

\* C14: the recent-reset set never holds more than
\* FLAGS_quic_max_recent_stateless_reset_addresses addresses; when it holds
\* that many, a packet without a version from a new address gets no reset
\* and the set is unchanged; and MaybeResetPacketsWithNoVersion sends a
\* reset to an address exactly when it newly records that address.
C14_ResetSetBounded ==
  [][/\ Cardinality(recent_stateless_reset_addresses_')
          <= FLAGS_quic_max_recent_stateless_reset_addresses
     /\ (/\ VersionlessForUnknown
         /\ out'.packet.peer \notin recent_stateless_reset_addresses_
         /\ Cardinality(recent_stateless_reset_addresses_)
              = FLAGS_quic_max_recent_stateless_reset_addresses)
          => /\ out'.sent = <<>>
             /\ UNCHANGED state
     /\ \A a \in Peers :
          ResetSentTo(a)'
            <=> /\ a \notin recent_stateless_reset_addresses_
                /\ a \in recent_stateless_reset_addresses_'
    ]_vars

\* The set is full and a packet from a third address has been dropped.
C14_Witness ==
  /\ out.op = "ProcessPacket"
  /\ ~out.packet.version_flag
  /\ out.packet.length > GetMinStatelessResetPacketLength
  /\ UnknownConnectionId(out.packet.destination_connection_id)
  /\ out.packet.peer \notin recent_stateless_reset_addresses_
  /\ Cardinality(recent_stateless_reset_addresses_)
       = FLAGS_quic_max_recent_stateless_reset_addresses
  /\ out.sent = <<>>

\* Packets without a version for an unknown connection ID from three peer
\* addresses, the clock and the clear-addresses alarm.
ClearNext ==
  \/ Receive(VersionlessPackets({"b8"}, Peers,
                                {kMinClientInitialPacketLength}),
             {Quiet})
  \/ AdvanceTime
  \/ ClearStatelessResetAddressesAlarm

\* Time passes, and the alarm factory runs an alarm whose deadline has come.
FairSpecClear ==
  /\ Init /\ [][ClearNext]_vars
  /\ WF_vars(AdvanceTime)
  /\ WF_vars(ClearStatelessResetAddressesAlarm)

\* C15: the clear-addresses alarm is set whenever the recent-reset set is
\* not empty; its deadline is set, to now + lifetime, exactly when the set
\* goes from empty to non-empty; when it runs the whole set is emptied; so
\* every recorded address is eventually removed.
C15_ClearAlarmEmptiesResetSet ==
  /\ [](recent_stateless_reset_addresses_ # {}
          => clear_stateless_reset_addresses_alarm_)
  /\ [][/\ (recent_stateless_reset_addresses_ = {}
             /\ recent_stateless_reset_addresses_' # {})
           => /\ clear_stateless_reset_addresses_alarm_'
              /\ clear_stateless_reset_addresses_deadline_'
                   = FLAGS_quic_recent_stateless_reset_addresses_lifetime_ms
        /\ (recent_stateless_reset_addresses_ # {}
             /\ out'.op = "ProcessPacket")
           => /\ clear_stateless_reset_addresses_deadline_'
                   = clear_stateless_reset_addresses_deadline_
              /\ clear_stateless_reset_addresses_alarm_'
        /\ out'.op = "ClearStatelessResetAddresses"
           => /\ clear_stateless_reset_addresses_alarm_
              /\ clear_stateless_reset_addresses_deadline_ = 0
              /\ recent_stateless_reset_addresses_' = {}
              /\ ~clear_stateless_reset_addresses_alarm_'
     ]_vars
  /\ \A a \in Peers :
       a \in recent_stateless_reset_addresses_
         ~> a \notin recent_stateless_reset_addresses_

\* The alarm has run and has removed two addresses at once.
C15_Witness ==
  /\ out.op = "ClearStatelessResetAddresses"
  /\ recent_stateless_reset_addresses_ = {}
  /\ ~clear_stateless_reset_addresses_alarm_
  /\ Cardinality(reset_log) = 2

(***************************************************************************)
(* Blocked source ports.                                                   *)
(***************************************************************************)
\* The ports the dispatcher is to block.
BlockedPortSet ==
  {0, 17, 19, 53, 111, 123, 137, 138, 161, 389, 500, 1900, 3702, 5353, 5355,
   11211}

\* What arrives from ports 53 and 0: CHLOs, short-header packets for every
\* connection ID, packets with a framing error, and packets of a version
\* that does not allow the 9-byte connection ID they carry.
FromBlockedPorts ==
  FromPort(InitialPackets({"a9", "b8"}, {"chlo"}) \cup ShortPackets(CIDs)
             \cup WithFramingError(ShortPackets({"b8"}))
             \cup OfVersion(InitialPackets({"a9"}, {"chlo"}), "Q043"),
           53)
  \cup FromPort(ShortPackets({"b8"}), 0)

\* The same datagrams next to ordinary traffic that creates sessions,
\* buffers CHLOs and fills the time-wait list.
BlockedNext ==
  \/ Receive(InitialPackets({"a9", "b8"}, {"chlo"}) \cup ShortPackets(CIDs)
               \cup FromBlockedPorts,
             {Quiet})
  \/ BufferedChlos({1}, {Quiet})
  \/ SessionClosed(HandshakeFailed)
  \/ DeleteSessionsAlarm

SpecBlocked == Init /\ [][BlockedNext]_vars

\* The last entry point was ProcessPacket on a datagram from a blocked
\* source port.
FromBlockedPort ==
  /\ out.op = "ProcessPacket"
  /\ out.packet.peer.port \in BlockedPortSet

\* C16: a datagram from a blocked source port causes no outbound packet
\* and no delivery to a session, whatever its connection ID is.
C16_BlockedPortNoOutbound ==
  FromBlockedPort =>
    /\ out.sent = <<>>
    /\ out.deliveries = <<>>
    /\ out.created = <<>>
    /\ out.closes = <<>>

\* A datagram from port 53 for the connection ID of a live session has been
\* dropped.
C16_Witness ==
  /\ FromBlockedPort
  /\ reference_counted_session_map_[out.packet.destination_connection_id]
       \in Sessions
  /\ ~out.packet.parse_error
  /\ out.sent = <<>>
  /\ out.deliveries = <<>>

\* C17: ProcessPacket on a datagram from a blocked source port leaves the
\* dispatcher's state as it was, whatever the datagram holds.
C17_BlockedPortNoStateChange ==
  [][FromBlockedPort' => UNCHANGED state]_vars

\* The largest value of a uint16_t port.
MaxPort == 65535

\* A new dispatcher, and the source port of the datagram it is about to
\* receive: every 16-bit port.
PortInit ==
  /\ Constructed
  /\ \E port \in 0..MaxPort : out = [NoOut EXCEPT !.packet.peer.port = port]

\* The datagram arrives: a packet without a version, long enough to be
\* answered with a stateless reset unless its port is blocked.
PortNext ==
  /\ out.op = "Init"
  /\ Receive(FromPort(ShortPackets({"b8"}), out.packet.peer.port), {Quiet})

SpecPorts == PortInit /\ [][PortNext]_vars

\* C18: IsSourceUdpPortBlocked is true for exactly the ports 0, 17, 19, 53,
\* 111, 123, 137, 138, 161, 389, 500, 1900, 3702, 5353, 5355 and 11211
\* among all 16-bit ports, and the dispatcher drops exactly the datagrams
\* from these ports.
C18_BlockedPortsExactly ==
  /\ IsSourceUdpPortBlocked(out.packet.peer.port)
       <=> out.packet.peer.port \in BlockedPortSet
  /\ out.op = "ProcessPacket"
       => (out.sent = <<>> <=> out.packet.peer.port \in BlockedPortSet)

\* The datagram from the highest blocked port has been dropped.
C18_Witness ==
  /\ out.op = "ProcessPacket"
  /\ out.packet.peer.port = 11211
  /\ out.sent = <<>>
  /\ recent_stateless_reset_addresses_ = {}


\* ---------------------------------------------------------------------
\* A TLS CHLO in two datagrams, arriving in either order.

\* The two INITIAL datagrams of one CHLO for connection c: each carries a
\* fragment of the CHLO and the token of its own long header.
MultiPacketChlo(c) ==
  WithRetryToken(InitialPackets({c}, {"frag1"}), "t1")
    \cup WithRetryToken(InitialPackets({c}, {"frag2"}), "t2")

ExtractNext ==
  \/ Receive(UNION {MultiPacketChlo(c) : c \in CIDs}, {Quiet})
  \/ BufferedChlos(0..MaxConnectionsToCreate, {Quiet})

SpecExtract == Init /\ [][ExtractNext]_vars

\* The fields of a ParsedClientHello that TryExtractChloOrBufferEarlyPacket
\* fills in.
ParsedChlo(r) ==
  <<r.sni, r.alpns, r.retry_token, r.resumption_attempted,
    r.early_data_attempted>>

\* C19: the same CHLO is sent on several connections, its two datagrams
\* arriving in whatever order; whenever two arrivals in a row each complete
\* the CHLO of their connection, the two ParsedChlo (sni, alpns,
\* retry_token, resumption_attempted, early_data_attempted) are equal.
C19_PermutationsYieldSameParsedChlo ==
  [][(out.parsed # <<>> /\ out'.parsed # <<>>)
       => ParsedChlo(out.parsed[1]) = ParsedChlo(out'.parsed[1])]_vars

\* ---------------------------------------------------------------------
\* Replacing server connection IDs, for each expected length.

ReplaceInit ==
  /\ \E len \in ExpectedLengths : ConstructedWith(len)
  /\ out = NoOut

ReplaceNext ==
  \/ Receive(InitialPackets(CIDs, {"chlo", "data"}), {Quiet})
  \/ BufferedChlos(0..MaxConnectionsToCreate, {Quiet})

SpecReplace == ReplaceInit /\ [][ReplaceNext]_vars

\* MaybeReplaceServerConnectionId called in the current state.
Replacement(c, v) == MaybeReplaceServerConnectionId(Dispatcher, c, v)

\* The calls CreateSessionFromChlo made in the last operation: the ID that
\* came in and the ID the session was to be created under.
ReplacementCalls ==
  {<<out.created[i].original, out.created[i].server>> :
     i \in DOMAIN out.created}
  \cup {<<out.collisions[i].original, out.collisions[i].server>> :
          i \in DOMAIN out.collisions}

WriteNext ==
  \/ Receive(InitialPackets({"a9", "b8"}, {"chlo"}), {Quiet})
  \/ BufferedChlos(1..MaxConnectionsToCreate, {Quiet})
  \/ WriteBlocked
  \/ CanWrite

SpecWrite == Init /\ [][WriteNext]_vars

\* How many times OnBlockedWriterCanWrite of writer w was called in the
\* last operation.
TimesCalled(w) ==
  Cardinality({i \in DOMAIN out.can_write.calls : out.can_write.calls[i] = w})

\* C21: OnCanWrite returns having called OnBlockedWriterCanWrite exactly
\* once for each writer that was in write_blocked_list_ when it was called
\* and for no other; the writers that registered again through
\* OnWriteBlocked during the call are the ones in write_blocked_list_
\* afterwards.
C21_EachBlockedWriterCalledOnce ==
  out.op = "OnCanWrite" =>
    /\ \A w \in Sessions :
         TimesCalled(w) = (IF w \in out.can_write.before THEN 1 ELSE 0)
    /\ write_blocked_list_ = out.can_write.before \cap out.can_write.again

\* OnCanWrite has run with two blocked writers, one of which registered
\* again during the call.
C21_Witness ==
  /\ out.op = "OnCanWrite"
  /\ Cardinality(out.can_write.before) = 2
  /\ Cardinality(write_blocked_list_) = 1
  /\ Len(out.can_write.calls) = 2

\* ---------------------------------------------------------------------
\* The caps of the buffered-packet store.

\* The packets the store holds for c, and those of them that are not the
\* CHLO.
PacketsHeld(store, c) == store.lists[c].buffered_packets

NumNonChloPackets(store, c) ==
  IF HasChloForConnection(store, c) THEN Len(PacketsHeld(store, c)) - 1
  ELSE Len(PacketsHeld(store, c))

\* One more packet for c would take the store over a cap.
WouldExceedCap(store, c, is_chlo) ==
  \/ ~HasBufferedPackets(store, c)
       /\ Len(store.order) >= kDefaultMaxConnectionsInStore
  \/ ~is_chlo /\ NumNonChloPackets(store, c) >= kDefaultMaxUndecryptablePackets

DispatchNext ==
  \/ Receive(InitialPackets({"r8", "b8"}, {"chlo", "frag1", "frag2", "data"})
               \cup ShortPackets({"r8", "b8"}),
             {Quiet})
  \/ BufferedChlos(0..MaxConnectionsToCreate, {Quiet})

SpecDispatch == Init /\ [][DispatchNext]_vars

\* The last operation was ProcessPacket and all it did with the packet was
\* to hand it to BufferEarlyPacket.
OnlyBufferedEarly(o) ==
  /\ o.reached = {}
  /\ Len(o.enqueues) = 1
  /\ o.enqueues[1].cid = o.packet.destination_connection_id
  /\ ~o.enqueues[1].is_chlo
  /\ o.sent = <<>> /\ o.created = <<>> /\ o.deliveries = <<>>

\* C23 as the spec has it: a packet whose connection ID is not in the
\* session map but has a list in the store, with or without a CHLO, is
\* handed to BufferEarlyPacket and gets no further.
C23_ListedIdAlwaysBuffered ==
  [][LET c == out'.packet.destination_connection_id
     IN  (/\ out'.op = "ProcessPacket"
          /\ ~InSessionMap(c)
          /\ HasBufferedPackets(buffered_packets_, c))
           => OnlyBufferedEarly(out')]_vars

\* C23 as the code has it: a packet whose connection ID is not in the
\* session map is handed to BufferEarlyPacket by MaybeDispatchPacket, and
\* gets no further, exactly when the store has a CHLO for the ID; when the
\* list has no CHLO yet, the packet goes on to the time-wait check and, if
\* the checks of MaybeDispatchPacket let it pass, to ProcessHeader.
C23_IdWithChloAlwaysBuffered ==
  [][LET c == out'.packet.destination_connection_id
     IN  (out'.op = "ProcessPacket" /\ ~InSessionMap(c)) =>
           /\ HasChloForConnection(buffered_packets_, c)
                => OnlyBufferedEarly(out')
           /\ ~HasChloForConnection(buffered_packets_, c)
                => "IsConnectionIdInTimeWait" \in out'.reached
           /\ (/\ HasBufferedPackets(buffered_packets_, c)
               /\ ~HasChloForConnection(buffered_packets_, c)
               /\ ~InTimeWait(c))
                => "ProcessHeader" \in out'.reached]_vars

\* A short-header packet was buffered behind the CHLO of its connection.
C23_Witness ==
  /\ out.op = "ProcessPacket"
  /\ OnlyBufferedEarly(out)
  /\ ~out.packet.version_flag
  /\ out.enqueues[1].result = "SUCCESS"
  /\ HasChloForConnection(buffered_packets_,
                          out.packet.destination_connection_id)

\* ---------------------------------------------------------------------
\* Packets that leave the CHLO incomplete.

\* The step is ProcessPacket on a packet of a TLS version for a connection
\* ID that was in no session, without a buffered CHLO and not in
\* time-wait, and ProcessHeader found the CHLO incomplete and no alert.
LeftChloIncomplete ==
  LET c == out'.packet.destination_connection_id
  IN  /\ out'.op = "ProcessPacket"
      /\ out'.packet.version_flag /\ UsesTls(out'.packet.version)
      /\ ~InSessionMap(c) /\ ~InTimeWait(c)
      /\ ~HasChloForConnection(buffered_packets_, c)
      /\ "ClientHelloIncomplete" \in out'.reached

\* Nothing but the store changed in the step, and nothing was sent.
OnlyStoreChanged ==
  /\ out'.created = <<>> /\ out'.sent = <<>> /\ out'.deliveries = <<>>
  /\ sessions' = sessions
  /\ reference_counted_session_map_' = reference_counted_session_map_
  /\ time_wait_list_manager_' = time_wait_list_manager_

\* The packet of the step was added to the list of c, which has no CHLO.
BufferedWithoutChlo(c) ==
  /\ Len(PacketsHeld(buffered_packets_', c))
       = Len(PacketsHeld(buffered_packets_, c)) + 1
  /\ HasBufferedPackets(buffered_packets_', c)
  /\ ~HasChloForConnection(buffered_packets_', c)

\* C24 as the spec has it: a packet of a TLS version for an unknown
\* connection ID that leaves the CHLO incomplete is buffered for that ID,
\* the list has no CHLO, and nothing else happens.
C24_IncompleteChloAlwaysBuffered ==
  [][LeftChloIncomplete =>
       /\ OnlyStoreChanged
       /\ BufferedWithoutChlo(out'.packet.destination_connection_id)]_vars

\* C24 as the code has it: such a packet is handed to BufferEarlyPacket once
\* and nothing but the store changes; it is buffered for that ID, in a list
\* without a CHLO, unless the store refuses it because a cap is reached,
\* and then it is dropped, reported to OnBufferPacketFailure, and the
\* packets held stay as they were.
C24_IncompleteChloBufferedOrRefused ==
  [][LeftChloIncomplete =>
       LET c == out'.packet.destination_connection_id
           e == out'.enqueues[1]
       IN  /\ OnlyStoreChanged
           /\ Len(out'.enqueues) = 1
           /\ e.cid = c /\ ~e.is_chlo
           /\ e.result = "SUCCESS" => BufferedWithoutChlo(c)
           /\ e.result # "SUCCESS" =>
                /\ WouldExceedCap(buffered_packets_, c, FALSE)
                /\ out'.failures = <<[result |-> e.result, cid |-> c]>>
                /\ \A x \in CIDs : PacketsHeld(buffered_packets_', x)
                                     = PacketsHeld(buffered_packets_, x)
                /\ buffered_packets_'.order = buffered_packets_.order]_vars

\* A second packet without the whole CHLO was buffered for a connection.
C24_Witness ==
  LET c == out.packet.destination_connection_id
  IN  /\ out.op = "ProcessPacket"
      /\ "ClientHelloIncomplete" \in out.reached
      /\ UsesTls(out.packet.version)
      /\ Len(out.enqueues) = 1 /\ out.enqueues[1].result = "SUCCESS"
      /\ Len(PacketsHeld(buffered_packets_, c)) = 2
      /\ ~HasChloForConnection(buffered_packets_, c)

\* ---------------------------------------------------------------------
\* A CHLO that arrives when the event loop's quota is used up.

\* The step is ProcessPacket on a packet that completed a CHLO and reached
\* ProcessChlo with no quota left.
ChloWithoutQuota ==
  /\ out'.op = "ProcessPacket"
  /\ out'.process_chlo
  /\ new_sessions_allowed_per_event_loop_ <= 0

\* No session was created in the step and the factory was not called.
NoSessionCreated ==
  /\ out'.created = <<>> /\ out'.attempts = <<>> /\ out'.factory_calls = 0
  /\ sessions' = sessions
  /\ reference_counted_session_map_' = reference_counted_session_map_

\* After the step the list of c has a CHLO: the packet at its head, with
\* its ParsedClientHello.
ChloBuffered(c) ==
  LET list == buffered_packets_'.lists[c]
  IN  /\ HasChloForConnection(buffered_packets_', c)
      /\ list.parsed_chlo # 0
      /\ list.buffered_packets # <<>>
      /\ Head(list.buffered_packets) = list.parsed_chlo
      /\ Len(list.buffered_packets)
           = Len(PacketsHeld(buffered_packets_, c)) + 1

\* The step is ProcessBufferedChlos with a positive quota and a CHLO
\* waiting; c is the oldest CHLO.
OldestChloTaken(c) ==
  /\ out'.op = "ProcessBufferedChlos"
  /\ out'.arg > 0
  /\ buffered_packets_.connections_with_chlo_ # <<>>
  /\ c = Head(buffered_packets_.connections_with_chlo_)

\* A session was created for the CHLO of c and got the CHLO first.
SessionCreatedFrom(c) ==
  \E i \in DOMAIN out'.created :
    LET x == out'.created[i]
    IN  /\ x.original = c
        /\ sessions'[x.session].state = "live"
        /\ \E j \in DOMAIN out'.deliveries :
             /\ out'.deliveries[j].session = x.session
             /\ out'.deliveries[j].packet
                  = buffered_packets_.lists[c].parsed_chlo
             /\ \A k \in 1..(j - 1) :
                  out'.deliveries[k].session # x.session

AlertNext ==
  \/ Receive(InitialPackets(CIDs, {"chlo", "frag1", "alert", "data"}),
             {Quiet})
  \/ BufferedChlos(0..MaxConnectionsToCreate, {Quiet})
  \/ TimeWaitExpires

SpecAlert == Init /\ [][AlertNext]_vars

\* C26: when the extractor raises a fatal TLS alert for the packet of a
\* step, the connection ID of the packet is in the time-wait list afterwards
\* with one CONNECTION_CLOSE of error code TlsAlertToQuicErrorCode(alert)
\* as its termination packet, and the store holds nothing for the ID; and a
\* packet for an ID that is in the time-wait list and in no session creates
\* no session and is not buffered.
C26_AlertMeansTimeWait ==
  [][LET c == out'.packet.destination_connection_id
     IN  /\ "tls_alert" \in out'.reached =>
              /\ time_wait_list_manager_'[c]
                   = [action |-> "SEND_TERMINATION_PACKETS",
                      packets |-> "connection_close"]
              /\ Len(out'.closes) = 1
              /\ out'.closes[1].ids = {c}
              /\ out'.closes[1].error_code = TlsAlertToQuicErrorCode("alert")
              /\ ~HasBufferedPackets(buffered_packets_', c)
              /\ buffered_packets_'.lists[c] = EmptyList
              /\ out'.created = <<>> /\ out'.enqueues = <<>>
         /\ (out'.op = "ProcessPacket" /\ InTimeWait(c) /\ ~InSessionMap(c)) =>
              /\ out'.created = <<>> /\ out'.enqueues = <<>>
              /\ out'.attempts = <<>>
              /\ buffered_packets_' = buffered_packets_
              /\ sessions' = sessions]_vars

\* An alert was raised for a connection ID that had two packets buffered:
\* the ID is in time-wait and its packets are gone.
C26_Witness ==
  LET c == out.packet.destination_connection_id
  IN  /\ "tls_alert" \in out.reached
      /\ out.discarded = 2
      /\ InTimeWait(c)
      /\ ~HasBufferedPackets(buffered_packets_, c)
      /\ \E i \in DOMAIN out.sent : out.sent[i].cid = c

\* ---------------------------------------------------------------------
\* Stateless termination.

PacketHeaderFormats ==
  {"IETF_QUIC_LONG_HEADER_PACKET", "IETF_QUIC_SHORT_HEADER_PACKET",
   "GOOGLE_QUIC_PACKET"}

TimeWaitActions == {"SEND_CONNECTION_CLOSE_PACKETS", "DO_NOTHING"}

\* StatelesslyTerminateConnection called as a subclass may call it, for a
\* connection ID that is in no session.
StatelesslyTerminate ==
  \E c \in {"r8", "b8"}, format \in PacketHeaderFormats,
     version_flag \in BOOLEAN, version \in {"TLS", "UNSUPPORTED"},
     action \in TimeWaitActions :
    /\ reference_counted_session_map_[c] = NoEntry
    /\ Done(StatelesslyTerminateConnection(
              Enter("StatelesslyTerminateConnection"), c, format,
              version_flag, version, "QUIC_HANDSHAKE_FAILED",
              "Reject connection", action))

\* INITIAL packets with the first part of a CHLO or an alert for two
\* connection IDs, and of an unsupported version for the third; direct
\* calls; the dispatcher stops and starts accepting; buffered packets and
\* time-wait entries expire.
TerminateNext ==
  \/ Receive(InitialPackets({"a9", "b8"}, {"frag1", "alert"})
               \cup OfVersion(InitialPackets({"r8"}, {"data"}),
                              "UNSUPPORTED"),
             {Quiet})
  \/ StatelesslyTerminate
  \/ StopAccepting
  \/ StartAccepting
  \/ ExpirePackets
  \/ TimeWaitExpires

SpecTerminate == Init /\ [][TerminateNext]_vars

\* The time-wait entry the call t of StatelesslyTerminateConnection is to
\* leave.
EntryAfter(t) ==
  IF t.format # "IETF_QUIC_LONG_HEADER_PACKET" /\ ~t.version_flag
  THEN [action |-> t.action, packets |-> "none"]
  ELSE IF t.version \in GetSupportedVersions
  THEN [action |-> "SEND_TERMINATION_PACKETS", packets |-> "connection_close"]
  ELSE [action |-> "SEND_TERMINATION_PACKETS",
        packets |-> "version_negotiation"]

\* C27: after a step that called StatelesslyTerminateConnection, the
\* connection ID of each call is in the time-wait list: under
\* SEND_TERMINATION_PACKETS with one CONNECTION_CLOSE made for it when the
\* version is supported, under SEND_TERMINATION_PACKETS with a
\* version-negotiation packet when it is not, and under the caller's action
\* with no packet when the header is not a long one and has no version; and
\* after the kFateTimeWait case the store holds nothing for the ID.
C27_TerminationLeavesIdInTimeWait ==
  [][/\ \A i \in DOMAIN out'.terminations :
          LET t == out'.terminations[i]
          IN  /\ IsConnectionIdInTimeWait(time_wait_list_manager_', t.cid)
              /\ time_wait_list_manager_'[t.cid] = EntryAfter(t)
              /\ EntryAfter(t).packets = "connection_close" =>
                   Cardinality({j \in DOMAIN out'.closes :
                                  out'.closes[j].ids = {t.cid}}) = 1
              /\ EntryAfter(t).packets # "connection_close" =>
                   out'.closes = <<>>
     /\ "tls_alert" \in out'.reached =>
          /\ Len(out'.terminations) = 1
          /\ out'.terminations[1].cid = out'.packet.destination_connection_id
          /\ buffered_packets_'.lists[out'.terminations[1].cid] = EmptyList]_vars

\* The three kinds of entry are in the time-wait list at once, the last of
\* them left by the kFateTimeWait case, which discarded a buffered packet.
C27_Witness ==
  \E a, b, c \in CIDs :
    /\ "tls_alert" \in out.reached
    /\ out.discarded >= 1
    /\ Len(out.terminations) = 1
    /\ out.terminations[1].cid = a
    /\ time_wait_list_manager_[a].packets = "connection_close"
    /\ time_wait_list_manager_[b].packets = "version_negotiation"
    /\ time_wait_list_manager_[c]
         = [action |-> "SEND_CONNECTION_CLOSE_PACKETS", packets |-> "none"]


\* ---------------------------------------------------------------------
\* Packets with a version for unknown connection IDs.

\* Datagrams P made n octets long.
OfLength(P, n) == {[p EXCEPT !.length = n] : p \in P}

\* INITIAL packets with a CHLO or no handshake bytes, of the smallest
\* length allowed and one octet shorter, of a supported and of an
\* unsupported version, from an ordinary and from a blocked source port.
UnknownPackets ==
  LET base == InitialPackets({"r8", "b8"}, {"chlo", "data"})
      sized == base \cup OfLength(base, kMinClientInitialPacketLength - 1)
      versioned == sized \cup OfVersion(sized, "UNSUPPORTED")
  IN  versioned \cup FromPort(versioned, 53)

UnknownNext ==
  \/ Receive(UnknownPackets, {Quiet})
  \/ BufferedChlos(1..MaxConnectionsToCreate, {Quiet})
  \/ StopAccepting
  \/ StartAccepting
  \/ TimeWaitExpires

SpecUnknown == Init /\ [][UnknownNext]_vars

\* The step is ProcessPacket on a packet with a version whose connection ID
\* has no session, no buffered CHLO and no time-wait entry.
VersionedForUnknownId ==
  LET c == out'.packet.destination_connection_id
  IN  /\ out'.op = "ProcessPacket"
      /\ out'.packet.version_flag
      /\ ~InSessionMap(c)
      /\ ~HasChloForConnection(buffered_packets_, c)
      /\ ~InTimeWait(c)

\* The packet of the step passed the source-port check.
FromAllowedPort == ~IsSourceUdpPortBlocked(out'.packet.peer.port)

\* The step terminated the connection ID of its packet with
\* QUIC_HANDSHAKE_FAILED, created and buffered nothing and called
\* OnNewConnectionRejected once.
RejectedOnce ==
  LET c == out'.packet.destination_connection_id
  IN  /\ Len(out'.terminations) = 1
      /\ out'.terminations[1].cid = c
      /\ out'.terminations[1].error_code = "QUIC_HANDSHAKE_FAILED"
      /\ IsConnectionIdInTimeWait(time_wait_list_manager_', c)
      /\ out'.created = <<>> /\ sessions' = sessions
      /\ out'.enqueues = <<>> /\ buffered_packets_' = buffered_packets_
      /\ out'.rejected = 1

\* C28 as the spec has it: while the dispatcher does not accept new
\* connections, every packet with a version whose connection ID has no
\* session, no buffered CHLO and no time-wait entry is terminated with
\* QUIC_HANDSHAKE_FAILED: the ID is in the time-wait list afterwards, no
\* session was created, nothing was buffered and OnNewConnectionRejected was
\* called once.
C28_VersionedPacketAlwaysRejected ==
  [][(~accept_new_connections_ /\ VersionedForUnknownId) => RejectedOnce]_vars

\* C28 as the code has it: the same for packets from a source port that is
\* not blocked; a packet from a blocked port is dropped before the
\* connection ID is looked at, and nothing is terminated or rejected.
C28_VersionedPacketRejectedUnlessPortBlocked ==
  [][(~accept_new_connections_ /\ VersionedForUnknownId) =>
       IF FromAllowedPort THEN RejectedOnce
       ELSE /\ state' = state
            /\ out'.terminations = <<>> /\ out'.rejected = 0
            /\ out'.sent = <<>>]_vars

\* A packet of an unsupported version was rejected while the dispatcher did
\* not accept new connections.
C28_Witness ==
  /\ out.op = "ProcessPacket"
  /\ ~accept_new_connections_
  /\ out.rejected = 1
  /\ ~IsSupportedVersion(out.packet.version)
  /\ Len(out.terminations) = 1
  /\ InTimeWait(out.packet.destination_connection_id)


\* The step is ProcessPacket on a packet of an unsupported version whose
\* connection ID has no session, no buffered CHLO and no time-wait entry.
UnsupportedForUnknownId ==
  VersionedForUnknownId /\ out'.packet.version \notin GetSupportedVersions

\* The step created no session, buffered nothing and left the time-wait
\* list alone; it sent one version-negotiation packet to the peer if the
\* packet was long enough, and nothing otherwise.
NegotiatedOrDropped ==
  LET p == out'.packet
  IN  /\ out'.created = <<>> /\ sessions' = sessions
      /\ reference_counted_session_map_' = reference_counted_session_map_
      /\ out'.enqueues = <<>> /\ buffered_packets_' = buffered_packets_
      /\ time_wait_list_manager_' = time_wait_list_manager_
      /\ out'.sent =
           IF p.length >= kMinPacketSizeForVersionNegotiation
           THEN <<[kind |-> "version_negotiation", peer |-> p.peer,
                   cid |-> p.destination_connection_id]>>
           ELSE <<>>

InitialForUnknownId ==
  /\ VersionedForUnknownId
  /\ out'.packet.form = "IETF_QUIC_LONG_HEADER_PACKET"
  /\ out'.packet.version \in GetSupportedVersions

\* A packet shorter than 1200 octets is dropped: nothing changes and nothing
\* is sent; a longer one reaches ProcessHeader.
DroppedIfShort ==
  IF out'.packet.length < 1200
  THEN /\ state' = state
       /\ out'.sent = <<>> /\ out'.created = <<>> /\ out'.enqueues = <<>>
       /\ "ProcessHeader" \notin out'.reached
  ELSE "ProcessHeader" \in out'.reached

\* A packet of any length for a connection ID with a session is delivered
\* to it, for one with a buffered CHLO it is handed to the store, and for
\* one in time-wait it goes to the time-wait list.
KnownIdIgnoresLength ==
  LET c == out'.packet.destination_connection_id
  IN  (out'.op = "ProcessPacket" /\ FromAllowedPort) =>
        /\ (InSessionMap(c)
            /\ sessions[reference_counted_session_map_[c]].state = "live") =>
             Len(out'.deliveries) = 1
        /\ (~InSessionMap(c) /\ HasChloForConnection(buffered_packets_, c)) =>
             Len(out'.enqueues) = 1
        /\ (~InSessionMap(c) /\ ~HasChloForConnection(buffered_packets_, c)
            /\ InTimeWait(c)) =>
             /\ "IsConnectionIdInTimeWait" \in out'.reached
             /\ "IsSupportedVersion" \notin out'.reached
             /\ Len(out'.sent) = 1

ConfiguredLengths == {7, 8, 9}

ShortInit ==
  /\ \E len \in ConfiguredLengths : ConstructedWith(len)
  /\ out = NoOut

\* INITIAL packets with a CHLO or no handshake bytes for a 7-octet and two
\* 8-octet connection IDs, of a known and of an unsupported version;
\* ProcessBufferedChlos.
ShortNext ==
  \/ Receive(InitialPackets({"s7", "r8", "b8"}, {"chlo", "data"})
               \cup OfVersion(InitialPackets({"s7"}, {"data"}), "UNSUPPORTED"),
             {Quiet})
  \/ BufferedChlos(0..MaxConnectionsToCreate, {Quiet})

SpecShort == ShortInit /\ [][ShortNext]_vars

\* The step is ProcessPacket on the first packet, of a known version, for
\* its connection ID.
FirstInitialOfKnownVersion ==
  LET c == out'.packet.destination_connection_id
  IN  /\ out'.op = "ProcessPacket"
      /\ out'.packet.version_flag
      /\ out'.packet.version # "UNSUPPORTED"
      /\ ~InSessionMap(c)
      /\ ~HasBufferedPackets(buffered_packets_, c)
      /\ ~InTimeWait(c)

\* The packet of the step was dropped: nothing changed, nothing was sent.
SilentlyDropped ==
  /\ state' = state
  /\ out'.sent = <<>> /\ out'.created = <<>> /\ out'.enqueues = <<>>
  /\ out'.reached = {}

TerminatorClosed(x) ==
  /\ Cardinality({j \in DOMAIN out'.closes : out'.closes[j].ids = x.ids}) = 1
  /\ \A j \in DOMAIN out'.closes :
       out'.closes[j].ids = x.ids =>
         /\ out'.closes[j].initial_obfuscators = x.connection.original
         /\ out'.closes[j].server_connection_id = x.server_connection_id
         /\ out'.closes[j].error_code = "QUIC_HANDSHAKE_FAILED"
  /\ \A c \in x.ids :
       time_wait_list_manager_'[c]
         = [action |-> "SEND_TERMINATION_PACKETS",
            packets |-> "connection_close"]

\* C32 as the spec has it: after every OnConnectionClosed of a session whose
\* handshake is not complete, the stateless terminator has made one
\* CONNECTION_CLOSE under the initial keys of the connection's original
\* destination connection ID, and the session's connection IDs are in the
\* time-wait list under SEND_TERMINATION_PACKETS.
C32_EarlyCloseAlwaysUsesTerminator ==
  [][\A k \in DOMAIN out'.closed :
       LET x == out'.closed[k]
       IN  ~x.connection.handshake_complete => TerminatorClosed(x)]_vars

\* C32 as the code has it: the same when the connection has no termination
\* packets of its own; when it has, the terminator is not used and the IDs
\* are in the time-wait list with the connection's packets under
\* SEND_CONNECTION_CLOSE_PACKETS.
C32_EarlyCloseUsesTerminatorUnlessPacketsSaved ==
  [][\A k \in DOMAIN out'.closed :
       LET x == out'.closed[k]
       IN  /\ (~x.connection.handshake_complete
               /\ ~x.connection.termination_packets) => TerminatorClosed(x)
           /\ x.connection.termination_packets =>
                /\ \A j \in DOMAIN out'.closes : out'.closes[j].ids # x.ids
                /\ \A c \in x.ids :
                     time_wait_list_manager_'[c]
                       = [action |-> "SEND_CONNECTION_CLOSE_PACKETS",
                          packets |-> "termination_packets"]]_vars

\* A session whose connection ID was replaced closed before the handshake
\* was complete, with no termination packets, naming the replacement: the
\* CONNECTION_CLOSE is under the keys of the ID the client chose.
C32_Witness ==
  /\ Len(out.closed) = 1
  /\ ~out.closed[1].connection.handshake_complete
  /\ ~out.closed[1].connection.termination_packets
  /\ out.closed[1].connection.original # out.closed[1].server_connection_id
  /\ Len(out.closes) = 1
  /\ out.closes[1].initial_obfuscators = out.closed[1].connection.original
  /\ Cardinality(out.closed[1].ids) > 1
  /\ \A c \in out.closed[1].ids : InTimeWait(c)


\* ---------------------------------------------------------------------
\* Buffered packets that expire.

\* INITIAL packets with a CHLO or no handshake bytes for two connection IDs;
\* ProcessBufferedChlos; the dispatcher stops and starts accepting; the
\* oldest list and time-wait entries expire.
ExpireNext ==
  \/ Receive(InitialPackets({"r8", "b8"}, {"chlo", "data"}), {Quiet})
  \/ BufferedChlos(0..MaxConnectionsToCreate, {Quiet})
  \/ StopAccepting
  \/ StartAccepting
  \/ ExpirePackets
  \/ TimeWaitExpires

\* The store's alarm runs when a list has expired.
FairSpecExpire == Init /\ [][ExpireNext]_vars /\ WF_vars(ExpirePackets)

\* C33: the step in which the oldest list expires terminates its connection
\* ID once, with QUIC_HANDSHAKE_FAILED: the ID is in the time-wait list
\* afterwards, the store holds nothing for it and no session was created;
\* a list leaves the store only by ProcessPacket or ProcessBufferedChlos
\* (delivered to a new session or discarded), by StopAcceptingNewConnections
\* or by expiring into the time-wait list; and the packets buffered for a
\* connection ID eventually leave the store.
C33_ExpiredListEntersTimeWait ==
  /\ [][out'.op = "OnExpiredPackets" =>
          LET c == Head(buffered_packets_.order)
          IN  /\ Len(out'.terminations) = 1
              /\ out'.terminations[1].cid = c
              /\ out'.terminations[1].error_code = "QUIC_HANDSHAKE_FAILED"
              /\ out'.terminations[1].version
                   = buffered_packets_.lists[c].version
              /\ IsConnectionIdInTimeWait(time_wait_list_manager_', c)
              /\ buffered_packets_'.lists[c] = EmptyList
              /\ ~HasBufferedPackets(buffered_packets_', c)
              /\ ~HasChloForConnection(buffered_packets_', c)
              /\ \A x \in CIDs \ {c} :
                   buffered_packets_'.lists[x] = buffered_packets_.lists[x]
              /\ out'.created = <<>> /\ out'.deliveries = <<>>
              /\ sessions' = sessions
              /\ reference_counted_session_map_'
                   = reference_counted_session_map_]_vars
  /\ [][\A c \in CIDs :
          (HasBufferedPackets(buffered_packets_, c)
           /\ ~HasBufferedPackets(buffered_packets_', c)) =>
            \/ out'.op \in {"ProcessPacket", "ProcessBufferedChlos",
                            "StopAcceptingNewConnections"}
            \/ /\ out'.op = "OnExpiredPackets"
               /\ IsConnectionIdInTimeWait(time_wait_list_manager_', c)]_vars
  /\ \A c \in CIDs :
       HasBufferedPackets(buffered_packets_, c)
         ~> ~HasBufferedPackets(buffered_packets_, c)

\* A list with a CHLO expired while another list stayed in the store.
C33_Witness ==
  /\ out.op = "OnExpiredPackets"
  /\ Len(out.terminations) = 1
  /\ InTimeWait(out.terminations[1].cid)
  /\ Len(out.closes) = 1
  /\ buffered_packets_.order # <<>>
  /\ ~HasBufferedPackets(buffered_packets_, out.terminations[1].cid)


\* ---------------------------------------------------------------------
\* Connection IDs added to and retired from the session map.

\* TryAddNewConnectionId with any two connection IDs; the session that owns
\* the first keeps the second when the dispatcher accepts it.
TryAddAnyConnectionId ==
  \E existing \in CIDs, new \in CIDs :
    LET r == TryAddNewConnectionId(Enter("TryAddNewConnectionId"), existing,
                                   new)
        s == reference_counted_session_map_[existing]
        d == IF r.ok /\ s \in Sessions
             THEN [r.d EXCEPT !.sessions[s].active = @ \cup {new}]
             ELSE r.d
    IN  Done([d EXCEPT !.out.id_calls =
                <<[existing |-> existing, new |-> new, ok |-> r.ok]>>])

\* OnConnectionIdRetired with any connection ID; the session that owns it
\* no longer counts it among its active IDs.
RetireAnyConnectionId ==
  \E cid \in CIDs :
    LET s == reference_counted_session_map_[cid]
        r == OnConnectionIdRetired(Enter("OnConnectionIdRetired"), cid)
        d == IF s \in Sessions
             THEN [r EXCEPT !.sessions[s].active = @ \ {cid}]
             ELSE r
    IN  Done([d EXCEPT !.out.id_calls =
                <<[existing |-> cid, new |-> cid, ok |-> TRUE]>>])

\* CHLOs for two connection IDs, one of which the dispatcher replaces;
\* ProcessBufferedChlos; connection IDs are added and retired.
IdsNext ==
  \/ Receive(InitialPackets({"a9", "b8"}, {"chlo"}), {Quiet})
  \/ BufferedChlos(1..MaxConnectionsToCreate, {Quiet})
  \/ TryAddAnyConnectionId
  \/ RetireAnyConnectionId

SpecIds == Init /\ [][IdsNext]_vars

\* Nothing of the dispatcher but the session map changed in the step.
OnlyMapChanged ==
  /\ num_sessions_in_session_map_' = num_sessions_in_session_map_
  /\ closed_session_list_' = closed_session_list_
  /\ buffered_packets_' = buffered_packets_
  /\ time_wait_list_manager_' = time_wait_list_manager_
  /\ write_blocked_list_' = write_blocked_list_
  /\ new_sessions_allowed_per_event_loop_'
       = new_sessions_allowed_per_event_loop_

\* C34: TryAddNewConnectionId(existing, new) returns false and changes
\* nothing when existing is not in the session map, returns false and leaves
\* the map as it is when new is in the map already, and otherwise returns
\* true and maps new to the session of existing, every other entry staying
\* as it was; OnConnectionIdRetired(cid) removes the entry of cid and leaves
\* every other entry as it was.
C34_AddAndRetireChangeOneEntry ==
  [][/\ out'.op = "TryAddNewConnectionId" =>
          LET x == out'.id_calls[1]
              map == reference_counted_session_map_
          IN  /\ OnlyMapChanged
              /\ IF map[x.existing] = NoEntry
                 THEN ~x.ok /\ state' = state
                 ELSE IF map[x.new] # NoEntry
                 THEN ~x.ok /\ reference_counted_session_map_' = map
                 ELSE /\ x.ok
                      /\ reference_counted_session_map_'
                           = [map EXCEPT ![x.new] = map[x.existing]]
     /\ out'.op = "OnConnectionIdRetired" =>
          LET x == out'.id_calls[1]
              map == reference_counted_session_map_
          IN  /\ OnlyMapChanged
              /\ reference_counted_session_map_'[x.existing] = NoEntry
              /\ \A c \in ConnectionIds \ {x.existing} :
                   reference_counted_session_map_'[c] = map[c]]_vars

\* One connection ID of a session with three was retired: the other two
\* still lead to the session.
C34_Witness ==
  /\ out.op = "OnConnectionIdRetired"
  /\ Len(out.id_calls) = 1
  /\ reference_counted_session_map_[out.id_calls[1].existing] = NoEntry
  /\ \E s \in Sessions :
       /\ sessions[s].state = "live"
       /\ Cardinality({c \in CIDs : reference_counted_session_map_[c] = s}) = 2
       /\ Cardinality(sessions[s].active) = 2
  /\ num_sessions_in_session_map_ = 1

(***************************************************************************)
(* C35.  The session map between entry points, with two sessions that      *)
(* issue and retire connection IDs and close.                              *)
(***************************************************************************)

\* CHLOs for two connection IDs, and sessions that issue a connection ID a
\* client also chose or a fresh one, retire connection IDs and close before
\* the handshake; each names one of the IDs its connection reports.
LiveNext ==
  \/ Receive(InitialPackets({"a9", "b8"}, {"chlo"}), {Quiet})
  \/ BufferedChlos(1..MaxConnectionsToCreate, {Quiet})
  \/ IssueConnectionId({"a9", "s7"})
  \/ ConnectionIdRetired
  \/ SessionClosed(HandshakeFailed)
  \/ DeleteSessionsAlarm

SpecLive == Init /\ [][LiveNext]_vars

\* C35: between entry points every entry of the session map holds a
\* session that is not in closed_session_list_, and never an emptied
\* handle; in particular the entry under the connection ID passed to
\* OnConnectionClosed is gone after the call.
C35_MapRefersToLiveSessionsOnly ==
  /\ \A c \in ConnectionIds :
       reference_counted_session_map_[c] # NoEntry =>
         /\ reference_counted_session_map_[c] \in Sessions
         /\ reference_counted_session_map_[c]
              \notin Range(closed_session_list_)
  /\ out.op = "OnConnectionClosed" =>
       \A i \in 1..Len(out.closed) :
         reference_counted_session_map_[out.closed[i].server_connection_id]
           = NoEntry

(***************************************************************************)
(* C36.  NumSessions() and the sessions the map leads to.                  *)
(***************************************************************************)

\* QuicDispatcher::NumSessions().
NumSessions == num_sessions_in_session_map_

\* The sessions at least one entry of the session map leads to.
ReachableSessions ==
  {s \in Sessions :
     \E c \in ConnectionIds : reference_counted_session_map_[c] = s}

C37_QuotaPositiveOnlyWithoutBufferedChlo ==
  /\ [](/\ new_sessions_allowed_per_event_loop_ >= 0
        /\ new_sessions_allowed_per_event_loop_ > 0 =>
             ~HasChlosBuffered(buffered_packets_))
  /\ [][(out'.op = "ProcessPacket" /\ out'.created # <<>>) =>
          /\ ~HasChlosBuffered(buffered_packets_)
          /\ new_sessions_allowed_per_event_loop_ > 0
          /\ new_sessions_allowed_per_event_loop_'
               = new_sessions_allowed_per_event_loop_ - 1]_vars

\* ProcessPacket created a session for a CHLO out of the quota the last
\* ProcessBufferedChlos left over, next to a list without CHLO that stays
\* in the store.
C37_Witness ==
  /\ FLAGS_quic_allow_chlo_buffering
  /\ out.op = "ProcessPacket"
  /\ Len(out.created) = 1
  /\ new_sessions_allowed_per_event_loop_ = 0
  /\ buffered_packets_.order # <<>>
  /\ ~HasChlosBuffered(buffered_packets_)
  /\ num_sessions_in_session_map_ = 2

(***************************************************************************)
(* C38.  Between StopAcceptingNewConnections and                            *)
(* StartAcceptingNewConnections.                                           *)
(***************************************************************************)

\* INITIAL packets with a whole CHLO, its first part or no handshake bytes
\* and short-header packets for two connection IDs, ProcessBufferedChlos,
\* and a dispatcher that stops and starts accepting; time-wait entries
\* expire.
AcceptNext ==
  \/ Receive(InitialPackets({"r8", "b8"}, {"chlo", "frag1", "data"})
               \cup ShortPackets({"r8", "b8"}),
             {Quiet})
  \/ BufferedChlos(0..MaxConnectionsToCreate, {Quiet})
  \/ StopAccepting
  \/ StartAccepting
  \/ TimeWaitExpires

SpecAccept == Init /\ [][AcceptNext]_vars

\* C38: from StopAcceptingNewConnections until the next
\* StartAcceptingNewConnections the buffered-packet store is empty, and no
\* entry point creates a session or buffers a packet.
C38_NothingAcceptedWhileStopped ==
  /\ [](~accept_new_connections_ => buffered_packets_ = EmptyStore)
  /\ [][~accept_new_connections_' =>
          /\ out'.created = <<>>
          /\ out'.factory_calls = 0
          /\ out'.enqueues = <<>>
          /\ num_sessions_in_session_map_' = num_sessions_in_session_map_]_vars

\* Not accepting, with quota left: the connection of an INITIAL packet for
\* an unknown connection ID was terminated and no session created.
C38_Witness ==
  /\ ~accept_new_connections_
  /\ out.op = "ProcessPacket"
  /\ out.packet.version_flag
  /\ new_sessions_allowed_per_event_loop_ > 0
  /\ out.created = <<>>
  /\ Len(out.terminations) = 1
  /\ num_sessions_in_session_map_ = 1

(***************************************************************************)
(* C39.  A new dispatcher before the first ProcessBufferedChlos with a     *)
(* positive argument.                                                      *)
(***************************************************************************)

\* No session was ever created and the quota is 0: the dispatcher as
\* constructed (350-352), whatever it has buffered or put in time-wait.
NoSessionYet ==
  /\ new_sessions_allowed_per_event_loop_ = 0
  /\ num_sessions_in_session_map_ = 0
  /\ \A s \in Sessions : sessions[s].state = "none"

\* The step is not ProcessBufferedChlos with a positive argument.
NotPositiveProcessBufferedChlos ==
  ~(out'.op = "ProcessBufferedChlos" /\ out'.arg > 0)

\* C39 as stated: a new dispatcher creates no session before the first
\* ProcessBufferedChlos with a positive argument, and every complete CHLO
\* that ProcessPacket hands to ProcessChlo until then is buffered with its
\* parsed CHLO.
C39_EveryChloBufferedUntilFirstQuota ==
  /\ [](out.op = "Init" => NoSessionYet)
  /\ [][(NoSessionYet /\ NotPositiveProcessBufferedChlos) =>
          /\ NoSessionYet'
          /\ out'.factory_calls = 0
          /\ out'.process_chlo =>
               LET c == out'.packet.destination_connection_id
               IN  /\ HasChloForConnection(buffered_packets_', c)
                   /\ buffered_packets_'.lists[c].parsed_chlo # 0]_vars

\* C39, amended: a new dispatcher creates no session before the first
\* ProcessBufferedChlos with a positive argument; every complete CHLO handed
\* to ProcessChlo until then is offered to the store with its parsed CHLO
\* instead of invoking the session factory: it is buffered if the store
\* accepts it, and refused (OnBufferPacketFailure, store unchanged) if the
\* store is full.
C39_EveryChloOfferedToStoreUntilFirstQuota ==
  /\ [](out.op = "Init" => NoSessionYet)
  /\ [][(NoSessionYet /\ NotPositiveProcessBufferedChlos) =>
          /\ NoSessionYet'
          /\ out'.factory_calls = 0
          /\ out'.created = <<>>
          /\ out'.process_chlo =>
               LET c == out'.packet.destination_connection_id
                   e == out'.enqueues[Len(out'.enqueues)]
               IN  /\ out'.enqueues # <<>>
                   /\ e.cid = c /\ e.is_chlo
                   /\ IF e.result = "SUCCESS"
                      THEN /\ HasChloForConnection(buffered_packets_', c)
                           /\ buffered_packets_'.lists[c].parsed_chlo # 0
                      ELSE /\ buffered_packets_' = buffered_packets_
                           /\ out'.failures
                                = <<[result |-> e.result, cid |-> c]>>]_vars

\* Before any quota was given: ProcessPacket buffered a second CHLO, two
\* CHLOs wait in the store and no session exists.
C39_Witness ==
  /\ FLAGS_quic_allow_chlo_buffering
  /\ NoSessionYet
  /\ out.op = "ProcessPacket"
  /\ out.process_chlo
  /\ out.loop.max_connections_to_create = 0
  /\ Len(buffered_packets_.connections_with_chlo_) = 2
  /\ out.factory_calls = 0

(***************************************************************************)
(* C40.  Blocked writers and destroyed sessions.                           *)
(***************************************************************************)

\* The connection of a session that is closed and not yet deleted finds the
\* socket blocked and registers again.
WriteBlockedAfterClose ==
  \E s \in Range(closed_session_list_) :
    Done(OnWriteBlocked([Enter("OnWriteBlocked") EXCEPT !.out.arg = s],
                        s, TRUE))

\* CHLOs for two connection IDs; the connections block on the socket,
\* before and after they close, and retire connection IDs; the closed
\* sessions are deleted.
ReleaseNext ==
  \/ Receive(InitialPackets({"a9", "b8"}, {"chlo"}), {Quiet})
  \/ BufferedChlos(1..MaxConnectionsToCreate, {Quiet})
  \/ WriteBlocked
  \/ WriteBlockedAfterClose
  \/ SessionClosed(HandshakeFailed)
  \/ ConnectionIdRetired
  \/ DeleteSessionsAlarm

SpecRelease == Init /\ [][ReleaseNext]_vars

\* C40: write_blocked_list_ never holds the connection of a session that
\* has been destroyed.
C40_NoDestroyedSessionInWriteBlockedList ==
  \A s \in write_blocked_list_ : sessions[s].state # "destroyed"

=============================================================================
